---- MODULE Spec2Model ----
(***************************************************************************)
(* A model of golang-gorm-datatables: the column registry (column.go), the  *)
(* query builder and count resolution (query.go) and the response assembly  *)
(* (Make).  A DataTable is one record, dt; every builder method is an       *)
(* operator from a DataTable to a DataTable, named as in the source.        *)
(***************************************************************************)
EXTENDS Integers, Sequences, FiniteSets, TLC

VARIABLES
    dt,            \* the DataTable under construction / being processed
    calls,         \* number of builder calls made so far
    hist,          \* the last two builder calls, oldest first
    prev,          \* the DataTable as it was before the last builder call
    db,            \* the rows of the table behind the data source
    failAt,        \* the query on which the data source fails ("" for none)
    form,          \* the form values of the HTTP request (<<>>: no request)
    parsed,        \* what ParseRequest returned for it (<<>>: not called)
    heap,          \* the gorm statements allocated so far; a *gorm.DB holds
                   \* the index of its statement (1 is the caller's own)
    entry,         \* the entry point called: "Make" or "Raw" ("" before it)
    pc,            \* where the call is: setup, check, build, total, filtered,
                   \* fetch, assemble, done, failed, panic
    qBase,         \* processQuery's locals; the queries are *gorm.DB handles
    qCount,
    qFiltered,
    qFinal,
    nTotal,
    nFiltered,
    rawData,
    err,           \* the error Make returns ("" for nil)
    response,      \* what the call returns besides err: the map of Make, or
                   \* <<data>> for the data of Raw; <<>> for nil
    started,       \* the kinds of workers Make has started
    dataSlice,     \* the rows the workers of Make work on
    workers,       \* the goroutines Make has started, each with its position
    mu,            \* the worker holding the lock (none: <<>>)
    semChan,       \* the pool: its capacity and the slots taken
    issued,        \* the queries sent to the data source, in order
    run,           \* 1: the first request; 2: the same table configuration
                   \* processing a request with another pagination window
    first          \* the configuration and the outcome of the first request

regVars == <<calls, hist, prev>>

poolVars == <<workers, mu, semChan>>

makeVars == <<heap, entry, pc, qBase, qCount, qFiltered, qFinal, nTotal, nFiltered,
              rawData, err, response, issued, started, dataSlice, poolVars>>

httpVars == <<form, parsed>>

\* What no call on the DataTable changes: the data source and the HTTP side.
srcVars == <<db, failAt, httpVars>>

vars == <<dt, regVars, srcVars, makeVars, run, first>>

\* runtime.NumCPU() of the machine where no specification says otherwise.
NumCPU == 1

\* make(chan struct{}, n)
make(n) == [cap |-> n, len |-> 0]

\* Number of builder calls in one run of the registry.
MaxCalls == 4

\* Number of builder calls between Req and Make.
MaxSetup == 2

(***************************************************************************)
(* Values                                                                   *)
(***************************************************************************)
\* Data keys used by callers; "ghost" is a key no caller ever registers.
Keys == {"id", "name", "ghost"}

\* A nil func is the empty sequence; a func value is a non-empty sequence.
NilFunc == <<>>

\* Column{} : Go's zero value of the Column struct (column.go:17-23).
ZeroColumn ==
    [Searchable |-> FALSE, Orderable |-> FALSE, Name |-> "", Data |-> "",
     RenderFunc |-> NilFunc]

\* Columns a caller passes to AddColumn: two different definitions per key.
ColumnInputs ==
    { [Searchable |-> TRUE,  Orderable |-> TRUE,  Name |-> "id",   Data |-> "id",
       RenderFunc |-> NilFunc],
      [Searchable |-> FALSE, Orderable |-> FALSE, Name |-> "ID",   Data |-> "id",
       RenderFunc |-> <<"user", "R1">>],
      [Searchable |-> TRUE,  Orderable |-> TRUE,  Name |-> "name", Data |-> "name",
       RenderFunc |-> NilFunc],
      [Searchable |-> TRUE,  Orderable |-> FALSE, Name |-> "",     Data |-> "name",
       RenderFunc |-> NilFunc] }

EditFuncs == {"E1"}

\* Argument lists of Only(...).
OnlyInputs == { <<"id">>, <<"name">>, <<"id", "name">>, <<"ghost">> }

Range(s) == { s[i] : i \in 1..Len(s) }

(***************************************************************************)
(* Column registry (column.go)                                              *)
(***************************************************************************)
\* Request{} : the zero Request (request.go).
ZeroRequest ==
    [Draw |-> 0, Start |-> 0, Length |-> 0,
     Search |-> [Value |-> "", Regex |-> FALSE],
     Order |-> <<>>, Columns |-> <<>>]

\* The Config New installs: searching, ordering and paging enabled.
DefaultConfig ==
    [Searchable |-> TRUE, Orderable |-> TRUE, Paginate |-> TRUE,
     Union |-> FALSE, Distinct |-> FALSE, CaseInsensitive |-> FALSE,
     GroupBy |-> <<>>, Having |-> <<>>, DefaultSort |-> <<>>]

\* New(tx).  A nil pointer, func or interface is the empty sequence; a set
\* pointer is a one-element sequence.  Maps are functions.
NewDataTable(tx) ==
    [totalRecords     |-> <<>>,
     filteredRecords  |-> <<>>,
     model            |-> <<>>,
     tx               |-> tx,
     req              |-> ZeroRequest,
     config           |-> DefaultConfig,
     additionalData   |-> <<>>,
     columns          |-> <<>>,
     columnsMap       |-> <<>>,
     selectedColumns  |-> <<>>,
     whitelistColumns |-> {},
     blacklistColumns |-> {},
     filters          |-> <<>>,
     customCols       |-> <<>>,
     rowIdFunc        |-> <<>>,
     rowClass         |-> "",
     rowDataFunc      |-> <<>>]

\* New(nil), as the registry tests build it.
New == NewDataTable(<<>>)

\* The keys of the map columnsMap.  The empty map is the empty function.
Registered(d) == DOMAIN d.columnsMap

isColumnAllowed_BlacklistFirst(d, name) ==
    IF d.whitelistColumns = {} /\ d.blacklistColumns = {} THEN TRUE
    ELSE IF d.blacklistColumns # {} THEN name \notin d.blacklistColumns
    ELSE name \in d.whitelistColumns

isColumnAllowed(d, name) ==
    IF d.whitelistColumns = {} /\ d.blacklistColumns = {} THEN TRUE
    ELSE IF d.whitelistColumns # {} THEN name \in d.whitelistColumns
    ELSE name \notin d.blacklistColumns

AddColumn(d, col) ==
    [d EXCEPT
        !.columns    = IF col.Data \in Registered(d) THEN @ ELSE Append(@, col),
        !.columnsMap = (col.Data :> col) @@ @]

\* EditColumn wraps editFunc in a render function reading row[col.Data].
EditColumn(d, name, editFunc) ==
    IF name \in Registered(d)
    THEN [d EXCEPT !.columnsMap =
            (name :> [d.columnsMap[name] EXCEPT
                        !.RenderFunc = <<"edit", editFunc, d.columnsMap[name].Data>>]) @@ @]
    ELSE d

\* columnsMap[k] of Go: the zero Column for a key the map does not hold.
MapLookup(d, k) == IF k \in Registered(d) THEN d.columnsMap[k] ELSE ZeroColumn

RemoveColumn_KeepList(d, data) ==
    LET filtered == SelectSeq(d.selectedColumns, LAMBDA k : k \notin data)
    IN  [d EXCEPT !.selectedColumns = filtered]

RemoveColumn(d, data) ==
    IF Len(d.selectedColumns) = 0 /\ Len(d.columns) > 0
    THEN LET filtered == SelectSeq(d.columns, LAMBDA c : c.Data \notin data)
         IN  [d EXCEPT !.columns = filtered,
                       !.selectedColumns = [i \in 1..Len(filtered) |-> filtered[i].Data]]
    ELSE LET filtered == SelectSeq(d.selectedColumns, LAMBDA k : k \notin data)
         IN  [d EXCEPT !.selectedColumns = filtered,
                       !.columns = [i \in 1..Len(filtered) |-> MapLookup(d, filtered[i])]]

WhitelistColumn(d, cols) == [d EXCEPT !.whitelistColumns = @ \cup cols]

BlacklistColumn(d, cols) == [d EXCEPT !.blacklistColumns = @ \cup cols]

Only(d, cols) == [d EXCEPT !.selectedColumns = cols]

getFilteredColumns(d) ==
    IF Len(d.selectedColumns) > 0
    THEN SelectSeq(d.columns,
            LAMBDA c : c.Data \in Range(d.selectedColumns) /\ isColumnAllowed(d, c.Data))
    ELSE SelectSeq(d.columns, LAMBDA c : isColumnAllowed(d, c.Data))

(***************************************************************************)
(* Strings.  Text is a sequence of tokens; case folding is a table over the *)
(* tokens the model uses (a token without letters folds to itself).         *)
(***************************************************************************)
ToUpper(s) ==
    CASE s = "asc"  -> "ASC"
      [] s = "desc" -> "DESC"
      [] s = "Desc" -> "DESC"
      [] s = "up"   -> "UP"
      [] s = "id"   -> "ID"
      [] s = "name" -> "NAME"
      [] s = "g"    -> "G"
      [] s = "John" -> "JOHN"
      [] s = "john" -> "JOHN"
      [] s = "total" -> "TOTAL"
      [] s = "users" -> "USERS"
      [] OTHER      -> s

ToLower(s) ==
    CASE s = "John" -> "john"
      [] s = "JOHN" -> "john"
      [] s = "Ann"  -> "ann"
      [] s = "ID"   -> "id"
      [] s = "NAME" -> "name"
      [] s = "G"    -> "g"
      [] OTHER      -> s

\* regexp.Compile(value) succeeds: an unclosed group does not compile.
RegexCompiles(value) == value # "("

(***************************************************************************)
(* Builder methods of the DataTable (datatables.go)                         *)
(***************************************************************************)
RECURSIVE AddRequestColumns(_, _, _)
AddRequestColumns(d, cols, i) ==
    IF i > Len(cols) THEN d
    ELSE AddRequestColumns(
            AddColumn(d, [Name |-> cols[i].Name, Data |-> cols[i].Data,
                          Searchable |-> cols[i].Searchable,
                          Orderable |-> cols[i].Orderable,
                          RenderFunc |-> NilFunc]),
            cols, i + 1)

Req(d, req) == AddRequestColumns([d EXCEPT !.req = req], req.Columns, 1)

Model(d, model) == [d EXCEPT !.model = model]

WithData(d, key, value) == [d EXCEPT !.additionalData = (key :> value) @@ @]

SetTotalRecords(d, count) == [d EXCEPT !.totalRecords = <<count>>]

SetFilteredRecords(d, count) == [d EXCEPT !.filteredRecords = <<count>>]

SetConfig(d, config) == [d EXCEPT !.config = config]

\* Filter(filterFunc): one more hook for buildBaseQuery.
Filter(d, filterFunc) == [d EXCEPT !.filters = Append(@, filterFunc)]

\* WithNumber: the "no" column, registered and then blacklisted.
WithNumber(d) ==
    BlacklistColumn(
        AddColumn(d, [Name |-> "No", Data |-> "no", Searchable |-> FALSE,
                      Orderable |-> FALSE, RenderFunc |-> NilFunc]),
        {"no"})

SetRowAttributes(d, idFunc, class, dataFunc) ==
    [d EXCEPT !.rowIdFunc = idFunc, !.rowClass = class, !.rowDataFunc = dataFunc]

DisableSearch(d) == [d EXCEPT !.config.Searchable = FALSE]

DisableOrder(d) == [d EXCEPT !.config.Orderable = FALSE]

DisablePagination(d) == [d EXCEPT !.config.Paginate = FALSE]

CaseInsensitive(d) == [d EXCEPT !.config.CaseInsensitive = TRUE]

\* *dt.tx.Statement of a DataTable whose handle and statement are not nil, in
\* heap h.
TxStatement(d, h) == h[d.tx[1].Statement[1]]

\* Validate: the error ("" for nil) and the DataTable, whose model it may set.
Validate(d, h) ==
    LET afterModel(m) ==
            IF m.req.Draw = 0 /\ Len(m.req.Columns) = 0
            THEN [err |-> "invalid request", dt |-> m]
            ELSE IF m.req.Search.Regex /\ ~RegexCompiles(m.req.Search.Value)
            THEN [err |-> "invalid regex search pattern", dt |-> m]
            ELSE [err |-> "", dt |-> m]
    IN  IF d.model = <<>>
        THEN IF d.tx = <<>>
             THEN [err |-> "no tx or model provided", dt |-> d]
             ELSE IF d.tx[1].Statement = <<>>
             THEN [err |-> "gorm statement is required", dt |-> d]
             ELSE IF TxStatement(d, h).Model = <<>>
             THEN IF \/ TxStatement(d, h).TableExpr = <<>>
                     \/ TxStatement(d, h).TableExpr[1].SQL = <<>>
                  THEN [err |-> "model is required", dt |-> d]
                  ELSE afterModel([d EXCEPT !.model =
                                     <<"string">> \o TxStatement(d, h).TableExpr[1].SQL])
             ELSE afterModel([d EXCEPT !.model = TxStatement(d, h).Model])
        ELSE afterModel(d)

(***************************************************************************)
(* The data source handle as the query code uses it: a statement holds the  *)
(* model, the table expression, the selection and a map of clauses keyed by *)
(* clause name.  Chain methods return a statement with the clause merged.   *)
(***************************************************************************)
queryGroupBy == "GROUP BY"
queryHaving == "HAVING"
queryUnion == "UNION"
queryDistinct == "DISTINCT"
querySelect == "SELECT"
queryCount == "COUNT(*) AS count"
orderAscending == "ASC"
orderDescending == "DESC"

EmptyStatement ==
    [Model |-> <<>>, TableExpr |-> <<>>, Selects |-> <<>>, Distinct |-> FALSE,
     Joins |-> <<>>, Clauses |-> <<>>]

HasClause(stmt, name) == name \in DOMAIN stmt.Clauses

\* delete(query.Statement.Clauses, name)
DeleteClause(stmt, name) ==
    [stmt EXCEPT !.Clauses = [k \in (DOMAIN @) \ {name} |-> @[k]]]

SetClause(stmt, name, value) == [stmt EXCEPT !.Clauses = (name :> value) @@ @]

GroupByOf(stmt) ==
    IF HasClause(stmt, queryGroupBy) THEN stmt.Clauses[queryGroupBy]
    ELSE [Columns |-> <<>>, Having |-> <<>>]

\* query.Where(expr): the expressions of WHERE are conjoined.
Where(stmt, expr) ==
    SetClause(stmt, "WHERE",
        Append(IF HasClause(stmt, "WHERE") THEN stmt.Clauses["WHERE"] ELSE <<>>, expr))

\* query.Group(name): one more grouping expression.
Group(stmt, name) ==
    SetClause(stmt, queryGroupBy, [GroupByOf(stmt) EXCEPT !.Columns = Append(@, name)])

\* query.Having(cond): the conditions live inside the GROUP BY clause.
Having(stmt, cond) ==
    SetClause(stmt, queryGroupBy, [GroupByOf(stmt) EXCEPT !.Having = Append(@, cond)])

\* query.Order(clause.OrderByColumn{...})
Order(stmt, column) ==
    SetClause(stmt, "ORDER BY",
        Append(IF HasClause(stmt, "ORDER BY") THEN stmt.Clauses["ORDER BY"] ELSE <<>>,
               column))

\* query.Offset(start).Limit(length)
OffsetLimit(stmt, start, length) ==
    SetClause(stmt, "LIMIT", [Offset |-> start, Limit |-> <<length>>])

\* query.Distinct("id")
Distinct(stmt, field) == [stmt EXCEPT !.Distinct = TRUE, !.Selects = <<field>>]

\* tx.Model(model)
WithModel(stmt, model) == [stmt EXCEPT !.Model = model]

\* tx.Select(queryCount).Table("(?) subquery", subQuery)
CountWrapper(stmt, subQuery) ==
    [stmt EXCEPT !.Selects = <<queryCount>>,
                 !.TableExpr = <<[SQL |-> <<"(", "?", ")", "subquery">>,
                                  Sub |-> <<subQuery>>]>>]

\* A *gorm.DB: the statement it points to and its clone mode (0: chain methods
\* work on the statement itself; 1: on a new empty statement; 2: on a copy).
DB(ref, clone) == [Statement |-> <<ref>>, clone |-> clone]

\* The nil *gorm.DB of a local not yet assigned.
NoQuery == [Statement |-> <<>>, clone |-> 0]

\* A query as the code sees it: a *gorm.DB together with the heap it lives in.
InHeap(h, tx) == [heap |-> h, db |-> tx]

\* *query.Statement
Stmt(query) == query.heap[query.db.Statement[1]]

\* db.getInstance(): the handle a chain method works on.
getInstance(query) ==
    IF query.db.clone = 0 THEN query
    ELSE InHeap(Append(query.heap,
                       IF query.db.clone = 1 THEN EmptyStatement ELSE Stmt(query)),
                DB(Len(query.heap) + 1, 0))

\* A chain method: Op is what it does to the statement of getInstance().
Chain(query, Op(_)) ==
    LET tx == getInstance(query)
    IN  InHeap([tx.heap EXCEPT ![tx.db.Statement[1]] = Op(@)], tx.db)

\* A write to *query.Statement that goes through no chain method.
Mutate(query, Op(_)) ==
    InHeap([query.heap EXCEPT ![query.db.Statement[1]] = Op(@)], query.db)

\* query.Session(&gorm.Session{}): the same statement, copied by the next
\* chain method or finisher.
Session(query) == InHeap(query.heap, [query.db EXCEPT !.clone = 2])

RECURSIVE Resolve(_, _)
\* The statement a finisher runs: a subquery passed as a *gorm.DB is read when
\* the statement is built.
Resolve(h, stmt) ==
    IF stmt.TableExpr # <<>> /\ stmt.TableExpr[1].Sub # <<>>
    THEN [stmt EXCEPT !.TableExpr[1].Sub =
            <<Resolve(h, h[stmt.TableExpr[1].Sub[1].Statement[1]])>>]
    ELSE stmt

hasGroupByClause(query) == HasClause(Stmt(query), queryGroupBy)

hasHavingClause(query) == HasClause(Stmt(query), queryHaving)

(***************************************************************************)
(* The SQL text of a statement, as the dry run renders it.                  *)
(***************************************************************************)
RECURSIVE Flatten(_, _)
\* The sequences of seqs joined, with the tokens sep between two of them.
Flatten(seqs, sep) ==
    IF Len(seqs) = 0 THEN <<>>
    ELSE IF Len(seqs) = 1 THEN seqs[1]
    ELSE seqs[1] \o sep \o Flatten(Tail(seqs), sep)

\* clause.Or(conditions...) as text: the bound values are placeholders.
ExprText(expr) ==
    Flatten([i \in 1..Len(expr.Conds) |->
                <<expr.Conds[i].Column, expr.Conds[i].Kind, "?">>], <<"OR">>)

SqlText(stmt) ==
    LET gb == GroupByOf(stmt)
        table == IF stmt.TableExpr # <<>> THEN stmt.TableExpr[1].SQL ELSE <<"users">>
        where == IF HasClause(stmt, "WHERE")
                 THEN <<"WHERE">> \o Flatten([i \in 1..Len(stmt.Clauses["WHERE"]) |->
                                               ExprText(stmt.Clauses["WHERE"][i])], <<"AND">>)
                 ELSE <<>>
        order == IF HasClause(stmt, "ORDER BY")
                 THEN <<"ORDER BY">> \o
                      Flatten([i \in 1..Len(stmt.Clauses["ORDER BY"]) |->
                                 <<stmt.Clauses["ORDER BY"][i].Name>>], <<",">>)
                 ELSE <<>>
    IN  <<querySelect>>
        \o (IF stmt.Distinct THEN <<queryDistinct>> ELSE <<>>)
        \o (IF stmt.Selects = <<>> THEN <<"*">> ELSE Flatten([i \in 1..Len(stmt.Selects) |-> <<stmt.Selects[i]>>], <<",">>))
        \o <<"FROM">> \o table
        \o where
        \o (IF gb.Columns # <<>> THEN <<queryGroupBy>> \o Flatten(gb.Columns, <<",">>) ELSE <<>>)
        \o (IF gb.Having # <<>> THEN <<queryHaving>> \o Flatten(gb.Having, <<"AND">>) ELSE <<>>)
        \o order

MapSeq(s, Op(_)) == [i \in 1..Len(s) |-> Op(s[i])]

\* strings.Index(text, keyword), 0-based; -1 when the keyword is absent.
Index(text, keyword) ==
    IF \E i \in 1..Len(text) : text[i] = keyword
    THEN (CHOOSE i \in 1..Len(text) :
            text[i] = keyword /\ \A j \in 1..(i - 1) : text[j] # keyword) - 1
    ELSE -1

\* strings.ReplaceAll(text, keyword, "")
RemoveAll(text, keyword) == SelectSeq(text, LAMBDA t : t # keyword)

RECURSIVE Split(_, _)
\* strings.Split(text, sep): always at least one field.
Split(text, sep) ==
    LET i == Index(text, sep)
    IN  IF i = -1 THEN <<text>>
        ELSE <<SubSeq(text, 1, i)>> \o Split(SubSeq(text, i + 2, Len(text)), sep)

(***************************************************************************)
(* The relational engine behind the handle: a table of rows, and what a     *)
(* statement returns on it.  A reference the engine cannot resolve is an    *)
(* execution error.                                                         *)
(***************************************************************************)
Schema == {"id", "name", "g"}

UsersTable ==
    << [id |-> "1", name |-> "John", g |-> "a"],
       [id |-> "2", name |-> "John", g |-> "a"],
       [id |-> "3", name |-> "Ann",  g |-> "b"],
       [id |-> "4", name |-> "John", g |-> "b"] >>

Tables == { UsersTable, SubSeq(UsersTable, 1, 2) }

\* Identifiers resolve without regard to case; "" when nothing matches.
ResolveColumn(name) ==
    IF \E c \in Schema : ToUpper(c) = ToUpper(name)
    THEN CHOOSE c \in Schema : ToUpper(c) = ToUpper(name)
    ELSE ""

\* `column` LIKE %value% and `column` REGEXP value: a cell matches a value it
\* equals up to case.
ConditionHolds(row, cond) ==
    ToLower(row[ResolveColumn(cond.Column)]) = ToLower(cond.Value)

ExprResolves(expr) ==
    \A i \in 1..Len(expr.Conds) : ResolveColumn(expr.Conds[i].Column) # ""

ExprHolds(row, expr) ==
    \E i \in 1..Len(expr.Conds) : ConditionHolds(row, expr.Conds[i])

\* The grouping fields of a GROUP BY clause: its expressions split on commas.
GroupFields(gb) == Split(Flatten(gb.Columns, <<",">>), ",")

FieldResolves(field) == Len(field) = 1 /\ ResolveColumn(field[1]) # ""

GroupKey(row, fields) == [i \in 1..Len(fields) |-> row[ResolveColumn(fields[i][1])]]

\* The only HAVING condition the engine's table supports: total > 1, total
\* being the size of the group.
HavingResolves(cond) == MapSeq(cond, ToUpper) = <<"TOTAL", ">", "1">>

RECURSIVE FirstOfGroups(_, _, _)
\* One row per group, in order of first appearance.
FirstOfGroups(rows, fields, seen) ==
    IF Len(rows) = 0 THEN <<>>
    ELSE LET k == GroupKey(rows[1], fields)
         IN  IF k \in seen THEN FirstOfGroups(Tail(rows), fields, seen)
             ELSE <<rows[1]>> \o FirstOfGroups(Tail(rows), fields, seen \cup {k})

Min(a, b) == IF a <= b THEN a ELSE b

\* LIMIT n is applied when n >= 0, OFFSET n when n > 0.
Window(rows, lim) ==
    LET from == IF lim.Offset > 0 THEN Min(lim.Offset, Len(rows)) ELSE 0
        rest == SubSeq(rows, from + 1, Len(rows))
    IN  IF lim.Limit # <<>> /\ lim.Limit[1] >= 0
        THEN SubSeq(rest, 1, Min(lim.Limit[1], Len(rest)))
        ELSE rest

RECURSIVE Execute(_, _)
\* The rows a statement returns on table, or an error.
Execute(stmt, table) ==
    LET sub == IF stmt.TableExpr # <<>> /\ stmt.TableExpr[1].Sub # <<>>
               THEN Execute(stmt.TableExpr[1].Sub[1], table)
               ELSE [err |-> FALSE, rows |-> table]
        where == IF HasClause(stmt, "WHERE") THEN stmt.Clauses["WHERE"] ELSE <<>>
        gb == GroupByOf(stmt)
        fields == GroupFields(gb)
        order == IF HasClause(stmt, "ORDER BY") THEN stmt.Clauses["ORDER BY"] ELSE <<>>
        resolves ==
            /\ stmt.Model # <<>> \/ stmt.TableExpr # <<>>
            /\ \A i \in 1..Len(where) : ExprResolves(where[i])
            /\ gb.Columns # <<>> => \A i \in 1..Len(fields) : FieldResolves(fields[i])
            /\ \A i \in 1..Len(gb.Having) : HavingResolves(gb.Having[i])
            /\ \A i \in 1..Len(order) : ResolveColumn(order[i].Name) # ""
        matching == SelectSeq(sub.rows,
                        LAMBDA r : \A i \in 1..Len(where) : ExprHolds(r, where[i]))
        groups == IF gb.Columns = <<>> THEN matching
                  ELSE FirstOfGroups(matching, fields, {})
        kept == IF gb.Having = <<>> \/ gb.Columns = <<>> THEN groups
                ELSE SelectSeq(groups,
                        LAMBDA r : Cardinality({ i \in 1..Len(matching) :
                            GroupKey(matching[i], fields) = GroupKey(r, fields) }) > 1)
    IN  IF sub.err \/ ~resolves THEN [err |-> TRUE, rows |-> <<>>]
        ELSE [err |-> FALSE,
              rows |-> IF HasClause(stmt, "LIMIT")
                       THEN Window(kept, stmt.Clauses["LIMIT"]) ELSE kept]

\* query.Count(&count): the number of rows the statement yields (one per
\* group when it groups), or of distinct ids under Distinct("id").
Count(stmt, table) ==
    LET res == Execute(DeleteClause(stmt, "ORDER BY"), table)
    IN  IF res.err THEN [err |-> TRUE, count |-> 0]
        ELSE [err |-> FALSE,
              count |-> IF stmt.Distinct
                        THEN Cardinality({ res.rows[i].id : i \in 1..Len(res.rows) })
                        ELSE Len(res.rows)]

(***************************************************************************)
(* Query construction and count resolution (query.go)                       *)
(***************************************************************************)
\* extractFields(clause): cut at the first "(" and the first ")" after it,
\* split on commas.
extractFields(clause) ==
    IF clause = <<>> THEN <<>>
    ELSE LET open == Index(clause, "(")
             c1 == IF open # -1 THEN SubSeq(clause, open + 2, Len(clause)) ELSE clause
             close == Index(c1, ")")
             c2 == IF close # -1 THEN SubSeq(c1, 1, close) ELSE c1
         IN  Split(c2, ",")

checkComplexQuery_Authoritative(d, h) ==
    LET sql == MapSeq(SqlText(TxStatement(d, h)), ToUpper)
        groupByIndex == Index(sql, queryGroupBy)
        havingIndex == Index(sql, queryHaving)
        endIndex == IF havingIndex # -1 THEN havingIndex ELSE Len(sql)
    IN  [d EXCEPT !.config.Union = Index(sql, queryUnion) # -1,
                  !.config.Distinct = Index(sql, queryDistinct) # -1,
                  !.config.GroupBy = IF groupByIndex # -1
                                     THEN extractFields(SubSeq(sql, groupByIndex + 1, endIndex))
                                     ELSE <<>>,
                  !.config.Having = IF havingIndex # -1
                                    THEN extractFields(SubSeq(sql, havingIndex + 1, Len(sql)))
                                    ELSE <<>>]

\* checkComplexQuery: scan the upper-cased text of dt.tx for the keywords.
\* The dry run works on a copy of the statement of dt.tx.
checkComplexQuery(d, h) ==
    LET sql == MapSeq(SqlText(TxStatement(d, h)), ToUpper)
        groupByIndex == Index(sql, queryGroupBy)
        havingIndex == Index(sql, queryHaving)
        endIndex == IF havingIndex # -1 THEN havingIndex ELSE Len(sql)
        union == IF Index(sql, queryUnion) # -1 THEN TRUE ELSE d.config.Union
        distinct == IF Index(sql, queryDistinct) # -1 THEN TRUE ELSE d.config.Distinct
        groupBy == IF groupByIndex # -1
                   THEN extractFields(SubSeq(sql, groupByIndex + 1, endIndex))
                   ELSE d.config.GroupBy
        having == IF havingIndex # -1
                  THEN extractFields(SubSeq(sql, havingIndex + 1, Len(sql)))
                  ELSE d.config.Having
    IN  [d EXCEPT !.config.Union = union, !.config.Distinct = distinct,
                  !.config.GroupBy = groupBy, !.config.Having = having]

\* checkComplexQuery: the bounds of groupByClause := sql[groupByIndex:endIndex]
\* and the length of the text; from is -1 when the text has no GROUP BY.
groupByClauseBounds(d, h) ==
    LET sql == MapSeq(SqlText(TxStatement(d, h)), ToUpper)
        havingIndex == Index(sql, queryHaving)
    IN  [from |-> Index(sql, queryGroupBy),
         to |-> IF havingIndex # -1 THEN havingIndex ELSE Len(sql),
         len |-> Len(sql)]

\* Go faults on a slice expression s[a:b] unless 0 <= a <= b <= len(s).
SliceFaults(from, to, len) == ~(0 <= from /\ from <= to /\ to <= len)

\* checkComplexQuery faults when it slices the GROUP BY clause.
checkComplexQueryFaults(d, h) ==
    LET b == groupByClauseBounds(d, h)
    IN  b.from # -1 /\ SliceFaults(b.from, b.to, b.len)

\* filter(query) for the hooks of the model: each is a chain call.
FilterCall(filterFunc, query) ==
    CASE filterFunc = "groupByG" -> Chain(query, LAMBDA s : Group(s, <<"g">>))
      [] filterFunc = "whereJohn" ->
            Chain(query, LAMBDA s : Where(s, [Conds |-> <<[Kind |-> "LIKE",
                                                           Column |-> "name",
                                                           Value |-> "John"]>>]))
      [] OTHER -> query

RECURSIVE applyFiltersFrom(_, _, _)
applyFiltersFrom(d, query, i) ==
    IF i > Len(d.filters) THEN query
    ELSE applyFiltersFrom(d, FilterCall(d.filters[i], query), i + 1)

applyFilters(d, query) == applyFiltersFrom(d, query, 1)

\* buildBaseQuery, with no relations registered: dt.tx itself when the model
\* is a table name, dt.tx.Model(dt.model) otherwise; then the filter hooks.
buildBaseQuery(d, h) ==
    LET tx == InHeap(h, d.tx[1])
    IN  applyFilters(d,
            IF d.model # <<>> /\ d.model[1] = "string"
            THEN IF Stmt(tx).Selects # <<>>
                 THEN Chain(tx, LAMBDA s : [s EXCEPT !.Selects = RemoveAll(@, querySelect)])
                 ELSE tx
            ELSE Chain(tx, LAMBDA s : WithModel(s, d.model)))

buildCountQuery(d, baseQuery) ==
    LET countQuery == Session(baseQuery)
    IN  IF d.config.Distinct THEN Chain(countQuery, LAMBDA s : Distinct(s, "id"))
        ELSE countQuery

RECURSIVE SearchConditions(_, _)
\* The loop of applySearch over the request columns from index i on.
SearchConditions(d, i) ==
    IF i > Len(d.req.Columns) THEN <<>>
    ELSE LET clientCol == d.req.Columns[i]
             val == IF d.config.CaseInsensitive THEN ToLower(d.req.Search.Value)
                    ELSE d.req.Search.Value
         IN  IF ~isColumnAllowed(d, clientCol.Data) THEN SearchConditions(d, i + 1)
             ELSE IF clientCol.Data \in Registered(d) /\ d.columnsMap[clientCol.Data].Searchable
             THEN <<[Kind |-> IF d.req.Search.Regex THEN "REGEXP" ELSE "LIKE",
                     Column |-> d.columnsMap[clientCol.Data].Name,
                     Value |-> val]>> \o SearchConditions(d, i + 1)
             ELSE SearchConditions(d, i + 1)

applySearch_IgnorePolicy(d, query) ==
    IF ~d.config.Searchable \/ d.req.Search.Value = "" THEN query
    ELSE LET conditions ==
                SearchConditions([d EXCEPT !.whitelistColumns = {}, !.blacklistColumns = {}], 1)
         IN  IF Len(conditions) > 0
             THEN Chain(query, LAMBDA s : Where(s, [Conds |-> conditions]))
             ELSE query

applySearch(d, query) ==
    IF ~d.config.Searchable \/ d.req.Search.Value = "" THEN query
    ELSE LET conditions == SearchConditions(d, 1)
         IN  IF Len(conditions) > 0
             THEN Chain(query, LAMBDA s : Where(s, [Conds |-> conditions]))
             ELSE query

RECURSIVE InstallHaving(_, _, _)
\* The loop of buildFilteredQuery over Config.Having from index i on.
InstallHaving(d, query, i) ==
    IF i > Len(d.config.Having) THEN query
    ELSE LET q == IF hasHavingClause(query)
                  THEN Mutate(query, LAMBDA s : DeleteClause(s, queryHaving))
                  ELSE query
         IN  InstallHaving(d,
                Chain(q, LAMBDA s : Having(s, RemoveAll(d.config.Having[i], queryHaving))),
                i + 1)

buildFilteredQuery_KeepGroupBy(d, baseQuery) ==
    LET query == applySearch(d, Session(baseQuery))
        joined == Flatten(d.config.GroupBy, <<",">>)
    IN  IF Len(d.config.GroupBy) > 0
        THEN InstallHaving(d,
                Chain(query, LAMBDA s : Group(s, RemoveAll(joined, queryGroupBy))), 1)
        ELSE query

buildFilteredQuery(d, baseQuery) ==
    LET query == applySearch(d, Session(baseQuery))
        joined == Flatten(d.config.GroupBy, <<",">>)
    IN  IF Len(d.config.GroupBy) > 0
        THEN InstallHaving(d,
                IF ~hasGroupByClause(query)
                THEN Chain(query, LAMBDA s : Group(s, joined))
                ELSE Chain(Mutate(query, LAMBDA s : DeleteClause(s, queryGroupBy)),
                           LAMBDA s : Group(s, RemoveAll(joined, queryGroupBy))),
                1)
        ELSE query

\* The error of one query: the data source's own failure, or its rejection
\* of a statement it cannot resolve; "" for nil.
ErrSource == "unsupported data"

ErrStatement == "Error 1054: Unknown column"

QueryError(source, kind, rejected) ==
    IF source.failAt = kind THEN ErrSource
    ELSE IF rejected THEN ErrStatement
    ELSE ""

getTotalCount_Retry(d, countQuery, source) ==
    LET res == Count(Resolve(countQuery.heap, Stmt(countQuery)), source.rows)
        failed == QueryError(source, "total", res.err) # ""
    IN  IF d.totalRecords # <<>>
        THEN [err |-> "", count |-> d.totalRecords[1], issued |-> <<>>,
              heap |-> countQuery.heap]
        ELSE [err |-> QueryError(source, "total", res.err), count |-> res.count,
              issued |-> IF failed THEN <<"total", "total">> ELSE <<"total">>,
              heap |-> countQuery.heap]

getTotalCount_AlwaysQuery(d, countQuery, source) ==
    LET res == Count(Resolve(countQuery.heap, Stmt(countQuery)), source.rows)
    IN  [err |-> QueryError(source, "total", res.err), count |-> res.count,
         issued |-> <<"total">>, heap |-> countQuery.heap]

\* getTotalCount: the cached count, or the count query, whose statement loses
\* its HAVING.  issued names the queries sent to the data source.
getTotalCount(d, countQuery, source) ==
    IF d.totalRecords # <<>>
    THEN [err |-> "", count |-> d.totalRecords[1], issued |-> <<>>,
          heap |-> countQuery.heap]
    ELSE LET q == IF HasClause(Stmt(countQuery), queryGroupBy)
                  THEN Mutate(countQuery, LAMBDA s :
                          SetClause(s, queryGroupBy,
                                    [s.Clauses[queryGroupBy] EXCEPT !.Having = <<>>]))
                  ELSE countQuery
             res == Count(Resolve(q.heap, Stmt(q)), source.rows)
         IN  [err |-> QueryError(source, "total", res.err), count |-> res.count,
              issued |-> <<"total">>, heap |-> q.heap]

getFilteredCount_PlainCount(d, filteredQuery, source) ==
    IF d.filteredRecords # <<>>
    THEN [err |-> "", count |-> d.filteredRecords[1], issued |-> <<>>,
          heap |-> filteredQuery.heap]
    ELSE LET res == Count(DeleteClause(Resolve(filteredQuery.heap, Stmt(filteredQuery)),
                                       queryGroupBy), source.rows)
         IN  [err |-> QueryError(source, "filtered", res.err), count |-> res.count,
              issued |-> <<"filtered:count">>, heap |-> filteredQuery.heap]

\* getFilteredCount: the cached count; with GroupBy configured the number of
\* rows of the filtered query wrapped as a subquery of dt.tx; else a plain COUNT.
getFilteredCount(d, filteredQuery, source) ==
    IF d.filteredRecords # <<>>
    THEN [err |-> "", count |-> d.filteredRecords[1], issued |-> <<>>,
          heap |-> filteredQuery.heap]
    ELSE IF Len(d.config.GroupBy) > 0
    THEN LET tx == InHeap(filteredQuery.heap, d.tx[1])
             wrapped == Chain(tx, LAMBDA s : CountWrapper(s, Session(filteredQuery).db))
             joinless == IF Len(TxStatement(d, wrapped.heap).Joins) > 0
                         THEN Mutate(wrapped, LAMBDA s : [s EXCEPT !.Joins = <<>>])
                         ELSE wrapped
             subQuery == Mutate(joinless, LAMBDA s : DeleteClause(s, queryGroupBy))
             res == Execute(Resolve(subQuery.heap, Stmt(subQuery)), source.rows)
         IN  [err |-> QueryError(source, "filtered", res.err),
              count |-> IF res.err THEN 0 ELSE Len(res.rows),
              issued |-> <<"filtered:subquery">>, heap |-> subQuery.heap]
    ELSE LET res == Count(Resolve(filteredQuery.heap, Stmt(filteredQuery)), source.rows)
         IN  [err |-> QueryError(source, "filtered", res.err), count |-> res.count,
              issued |-> <<"filtered:count">>, heap |-> filteredQuery.heap]

RECURSIVE OrderEntries(_, _, _)
\* The loop of applyOrder over the request's order entries from index i on:
\* panic is Go's index-out-of-range fault of dt.req.Columns[order.Column].
OrderEntries(d, query, i) ==
    IF i > Len(d.req.Order) THEN [panic |-> FALSE, query |-> query]
    ELSE LET order == d.req.Order[i]
         IN  IF order.Column >= Len(d.req.Columns) THEN OrderEntries(d, query, i + 1)
             ELSE IF order.Column < 0 THEN [panic |-> TRUE, query |-> query]
             ELSE LET clientCol == d.req.Columns[order.Column + 1]
                      dir == IF ToUpper(order.Dir) \notin {orderAscending, orderDescending}
                             THEN orderAscending ELSE ToUpper(order.Dir)
                  IN  IF ~isColumnAllowed(d, clientCol.Data)
                      THEN OrderEntries(d, query, i + 1)
                      ELSE IF /\ clientCol.Data \in Registered(d)
                              /\ d.columnsMap[clientCol.Data].Orderable
                              /\ d.columnsMap[clientCol.Data].Name # ""
                      THEN OrderEntries(d,
                              Chain(query, LAMBDA s :
                                  Order(s, [Name |-> d.columnsMap[clientCol.Data].Name,
                                            Desc |-> ToUpper(dir) = orderDescending])),
                              i + 1)
                      ELSE OrderEntries(d, query, i + 1)

RECURSIVE DefaultSortEntries(_, _, _, _)
\* The loop of applyOrder over Config.DefaultSort; names is the order in
\* which the map yields its keys, which Go leaves unspecified.
DefaultSortEntries(d, query, names, i) ==
    IF i > Len(names) THEN query
    ELSE LET name == names[i]
             colName == IF d.columnsMap[name].Name = "" THEN d.columnsMap[name].Data
                        ELSE d.columnsMap[name].Name
         IN  IF name \in Registered(d) /\ colName # ""
             THEN DefaultSortEntries(d,
                     Chain(query, LAMBDA s :
                         Order(s, [Name |-> colName,
                                   Desc |-> ToUpper(d.config.DefaultSort[name]) = orderDescending])),
                     names, i + 1)
             ELSE DefaultSortEntries(d, query, names, i + 1)

applyOrder_AlwaysDefault(d, query, names) ==
    IF ~d.config.Orderable THEN [panic |-> FALSE, query |-> query]
    ELSE IF d.config.Union
    THEN [panic |-> FALSE,
          query |-> Chain(query, LAMBDA s : Order(s, [Name |-> "union_order", Desc |-> FALSE]))]
    ELSE LET req == OrderEntries(d, query, 1)
         IN  IF req.panic THEN req
             ELSE [panic |-> FALSE, query |-> DefaultSortEntries(d, req.query, names, 1)]

applyOrder(d, query, names) ==
    IF ~d.config.Orderable THEN [panic |-> FALSE, query |-> query]
    ELSE IF d.config.Union
    THEN [panic |-> FALSE,
          query |-> Chain(query, LAMBDA s : Order(s, [Name |-> "union_order", Desc |-> FALSE]))]
    ELSE LET req == OrderEntries(d, query, 1)
         IN  IF req.panic THEN req
             ELSE IF Len(d.req.Order) = 0 /\ DOMAIN d.config.DefaultSort # {}
             THEN [panic |-> FALSE, query |-> DefaultSortEntries(d, req.query, names, 1)]
             ELSE req

applyPagination_SkipZero(d, query) ==
    IF d.config.Paginate /\ d.req.Length > 0
    THEN Chain(query, LAMBDA s : OffsetLimit(s, d.req.Start, d.req.Length)) ELSE query

applyPagination(d, query) ==
    IF d.config.Paginate
    THEN Chain(query, LAMBDA s : OffsetLimit(s, d.req.Start, d.req.Length)) ELSE query

executeQuery_SwallowError(query, source) ==
    LET res == Execute(Resolve(query.heap, Stmt(query)), source.rows)
    IN  [err |-> "", rows |-> res.rows]

\* executeQuery: query.Find(&rawData)
executeQuery(query, source) ==
    LET res == Execute(Resolve(query.heap, Stmt(query)), source.rows)
    IN  [err |-> QueryError(source, "fetch", res.err), rows |-> res.rows]

(***************************************************************************)
(* The work on the rows after processQuery (Make, util.go).  Cells are      *)
(* strings; a function of the caller is a name, and its result is the text  *)
(* of its call on the cell it reads.                                        *)
(***************************************************************************)
datatableRowID == "DT_RowId"

datatableRowClass == "DT_RowClass"

\* datatableRowDataPrefix + k, for the keys the model's functions return.
RowDataKey(k) == "DT_RowData_" \o k

\* row[k] of Go: nil for a key the map does not hold.
Get(row, k) == IF k \in DOMAIN row THEN row[k] ELSE "<nil>"

\* row[k] = v
Put(row, k, v) == (k :> v) @@ row

\* The cell each render function of the caller reads.
RenderArg == [R1 |-> "id", Rno |-> "no", Rname |-> "name"]

\* renderFunc(row): a function of the caller, or the closure of EditColumn.
RenderCall(f, row) ==
    IF f[1] = "edit" THEN f[2] \o "(" \o Get(row, f[3]) \o ")"
    ELSE f[2] \o "(" \o Get(row, RenderArg[f[2]]) \o ")"

\* The numbering worker of row i (1-based here, so Start + i).
NumberRow(d, row, i) == Put(row, d.columnsMap["no"].Data, ToString(d.req.Start + i))

RECURSIVE RenderRow(_, _, _)
\* The render worker of one row: the loop over dt.columns from index i on.
RenderRow(d, row, i) ==
    IF i > Len(d.columns) THEN row
    ELSE LET data == d.columns[i].Data
             renderFunc == d.columnsMap[data].RenderFunc
         IN  RenderRow(d, IF renderFunc # <<>> THEN Put(row, data, RenderCall(renderFunc, row))
                          ELSE row, i + 1)

\* editor(row) for an editor <<name, key read, key written>>.
EditorCall(editor, row) ==
    Put(row, editor[3], editor[1] \o "(" \o Get(row, editor[2]) \o ")")

RECURSIVE applyCustomColumnsFrom(_, _, _)
applyCustomColumnsFrom(d, data, e) ==
    IF e > Len(d.customCols) THEN data
    ELSE applyCustomColumnsFrom(d,
            [i \in 1..Len(data) |-> EditorCall(d.customCols[e], data[i])], e + 1)

applyCustomColumns(d, data) == applyCustomColumnsFrom(d, data, 1)

\* applyRowAttributes on one row; rowIdFunc and rowDataFunc are <<name, key
\* read>>, and rowDataFunc returns a map with the one key "k".
RowAttributes(d, row) ==
    LET r1 == IF d.rowIdFunc # <<>>
              THEN Put(row, datatableRowID,
                       d.rowIdFunc[1] \o "(" \o Get(row, d.rowIdFunc[2]) \o ")")
              ELSE row
        r2 == IF d.rowClass # "" THEN Put(r1, datatableRowClass, d.rowClass) ELSE r1
    IN  IF d.rowDataFunc # <<>>
        THEN Put(r2, RowDataKey("k"),
                 d.rowDataFunc[1] \o "(" \o Get(r2, d.rowDataFunc[2]) \o ")")
        ELSE r2

applyRowAttributes(d, data) == [i \in 1..Len(data) |-> RowAttributes(d, data[i])]

\* The kinds of workers Make starts for these rows.
WorkerKinds(d, data) ==
    (IF "no" \in Registered(d) /\ Len(data) > 0 THEN {"number"} ELSE {})
    \cup (IF Len(data) > 0 THEN {"render"} ELSE {})
    \cup {"custom", "attributes"}

\* The rows after the workers have run one after the other in the order of
\* the code: numbering, render functions, custom columns, row attributes.
Decorated(d, data) ==
    LET numbered == IF "no" \in Registered(d)
                    THEN [i \in 1..Len(data) |-> NumberRow(d, data[i], i)] ELSE data
        rendered == [i \in 1..Len(numbered) |-> RenderRow(d, numbered[i], 1)]
    IN  applyRowAttributes(d, applyCustomColumns(d, rendered))

FinalizeResponseColumns_KeepAll(d, data) == data

\* FinalizeResponseColumns: drop every row key outside the projection list.
FinalizeResponseColumns(d, data) ==
    [i \in 1..Len(data) |->
        [k \in (DOMAIN data[i]) \cap Range(d.selectedColumns) |-> data[i][k]]]

\* The rows Make puts in the response: projected when Only(...) was called.
ResponseRows(d, data) ==
    IF Len(d.selectedColumns) > 0 THEN FinalizeResponseColumns(d, data) ELSE data

Response_NoExtras(d, total, filtered, data) ==
    [draw |-> d.req.Draw, recordsTotal |-> total, recordsFiltered |-> filtered,
     data |-> data]

\* The response map of Make: the four fields, then maps.Copy of the extras
\* over them.
Response(d, total, filtered, data) ==
    d.additionalData @@
    [draw |-> d.req.Draw, recordsTotal |-> total, recordsFiltered |-> filtered,
     data |-> data]

\* The orders in which a map can yield the keys in S.
Orderings(S) ==
    { s \in [1..Cardinality(S) -> S] : \A i, j \in 1..Cardinality(S) : s[i] = s[j] => i = j }

\* The state of a DataTable on which Make has not been called.
NoOutcome == [dt |-> New, heap |-> <<>>, done |-> FALSE, total |-> 0, filtered |-> 0]

MakeNotStarted ==
    /\ entry = ""
    /\ pc = "setup"
    /\ qBase = NoQuery
    /\ qCount = NoQuery
    /\ qFiltered = NoQuery
    /\ qFinal = NoQuery
    /\ nTotal = 0
    /\ nFiltered = 0
    /\ rawData = <<>>
    /\ err = ""
    /\ response = <<>>
    /\ issued = <<>>
    /\ started = {}
    /\ dataSlice = <<>>
    /\ workers = <<>>
    /\ mu = <<>>

(***************************************************************************)
(* Builder calls as actions                                                 *)
(***************************************************************************)
NoCall == [op |-> "none", col |-> ZeroColumn, keys |-> {}]

Call(op, col, keys) == [op |-> op, col |-> col, keys |-> keys]

\* Record a call: the DataTable before it, and the last two calls.
Record(d, c) ==
    /\ calls < MaxCalls
    /\ calls' = calls + 1
    /\ prev' = dt
    /\ hist' = <<hist[2], c>>
    /\ dt' = d
    /\ UNCHANGED <<srcVars, makeVars, run, first>>

AddColumnCall ==
    \E col \in ColumnInputs : Record(AddColumn(dt, col), Call("AddColumn", col, {col.Data}))

EditColumnCall ==
    \E name \in Keys, f \in EditFuncs :
        Record(EditColumn(dt, name, f), Call("EditColumn", ZeroColumn, {name}))

RemoveColumnCall ==
    \E data \in (SUBSET Keys) \ {{}} :
        Record(RemoveColumn(dt, data), Call("RemoveColumn", ZeroColumn, data))

OnlyCall ==
    \E cols \in OnlyInputs : Record(Only(dt, cols), Call("Only", ZeroColumn, Range(cols)))

WhitelistColumnCall ==
    \E k \in Keys : Record(WhitelistColumn(dt, {k}), Call("WhitelistColumn", ZeroColumn, {k}))

BlacklistColumnCall ==
    \E k \in Keys : Record(BlacklistColumn(dt, {k}), Call("BlacklistColumn", ZeroColumn, {k}))

InitRegistry ==
    /\ dt = New
    /\ calls = 0
    /\ hist = <<NoCall, NoCall>>
    /\ prev = New
    /\ db = UsersTable
    /\ failAt = ""
    /\ semChan = make(2 * NumCPU)
    /\ form = <<>>
    /\ parsed = <<>>
    /\ heap = <<>>
    /\ MakeNotStarted
    /\ run = 1
    /\ first = NoOutcome

NextRegistry ==
    \/ AddColumnCall
    \/ EditColumnCall
    \/ RemoveColumnCall
    \/ OnlyCall
    \/ WhitelistColumnCall
    \/ BlacklistColumnCall

SpecRegistry == InitRegistry /\ [][NextRegistry]_vars

(***************************************************************************)
(* ParseRequest (request.go).  A form is what r.Form.Get returns for each   *)
(* key ("" for a key that is not sent); columns and order are the indexed   *)
(* keys columns[i][...] and order[i][...] from index 0 on.                  *)
(***************************************************************************)
\* strconv.Atoi on the texts the forms hold: the value, or an error and 0.
Atoi(text) ==
    CASE text = "0"  -> [err |-> FALSE, val |-> 0]
      [] text = "1"  -> [err |-> FALSE, val |-> 1]
      [] text = "10" -> [err |-> FALSE, val |-> 10]
      [] text = "99" -> [err |-> FALSE, val |-> 99]
      [] text = "-1" -> [err |-> FALSE, val |-> -1]
      [] OTHER       -> [err |-> TRUE, val |-> 0]

\* strconv.ParseBool: the twelve texts it accepts.
ParseBool(text) ==
    IF text \in {"1", "t", "T", "TRUE", "true", "True"} THEN [err |-> FALSE, val |-> TRUE]
    ELSE IF text \in {"0", "f", "F", "FALSE", "false", "False"}
    THEN [err |-> FALSE, val |-> FALSE]
    ELSE [err |-> TRUE, val |-> FALSE]

RECURSIVE ParseColumns(_, _)
\* The column loop from index i on (1-based here): it stops at the first
\* index without data.
ParseColumns(f, i) ==
    IF i > Len(f.columns) \/ f.columns[i].data = "" THEN <<>>
    ELSE <<[Data |-> f.columns[i].data, Name |-> f.columns[i].name,
            Searchable |-> f.columns[i].searchable = "true",
            Orderable |-> f.columns[i].orderable = "true"]>>
         \o ParseColumns(f, i + 1)

RECURSIVE ParseOrder(_, _, _)
\* The order loop from index i on: an entry is kept when its index names an
\* orderable column; a column index that is no integer parses as 0.
ParseOrder(f, columns, i) ==
    IF i > Len(f.order) \/ f.order[i].column = "" THEN <<>>
    ELSE LET col == Atoi(f.order[i].column).val
         IN  (IF col >= 0 /\ col < Len(columns) /\ columns[col + 1].Orderable
              THEN <<[Column |-> col, Dir |-> f.order[i].dir]>> ELSE <<>>)
             \o ParseOrder(f, columns, i + 1)

\* ParseRequest: the error ("" for nil) and the *Request (<<>> for nil).  The
\* error of Atoi on length is dropped.
ParseRequest(f) ==
    IF Atoi(f.draw).err THEN [err |-> "invalid value for draw", req |-> <<>>]
    ELSE IF Atoi(f.start).err THEN [err |-> "invalid value for start", req |-> <<>>]
    ELSE IF ParseBool(f.searchRegex).err
    THEN [err |-> "invalid value for search[regex]", req |-> <<>>]
    ELSE LET columns == ParseColumns(f, 1)
             order == ParseOrder(f, columns, 1)
         IN  [err |-> "",
              req |-> <<[Draw |-> Atoi(f.draw).val, Start |-> Atoi(f.start).val,
                         Length |-> Atoi(f.length).val,
                         Search |-> [Value |-> f.searchValue,
                                     Regex |-> ParseBool(f.searchRegex).val],
                         Order |-> IF Len(order) = 0 /\ Len(columns) > 0
                                      /\ columns[1].Orderable
                                   THEN <<[Column |-> 0, Dir |-> "asc"]>> ELSE order,
                         Columns |-> columns]>>]

(***************************************************************************)
(* Make (datatables.go) and processQuery (query.go), step by step           *)
(***************************************************************************)
\* A builder call made before Make.
Setup(d) ==
    /\ pc = "setup"
    /\ run = 1
    /\ calls < MaxSetup
    /\ calls' = calls + 1
    /\ dt' = d
    /\ UNCHANGED <<hist, prev, srcVars, makeVars, run, first>>

\* The data source as the queries reach it.
Source == [rows |-> db, failAt |-> failAt]

\* Make: Validate, and the validation error if there is one.
MakeCall ==
    /\ pc = "setup"
    /\ entry' = "Make"
    /\ \E v \in {Validate(dt, heap)} :
           /\ dt' = v.dt
           /\ err' = v.err
           /\ pc' = IF v.err # "" THEN "failed" ELSE "check"
    /\ first' = IF run = 1 THEN [first EXCEPT !.dt = dt, !.heap = heap] ELSE first
    /\ UNCHANGED <<regVars, srcVars, heap, qBase, qCount, qFiltered, qFinal, nTotal,
                   nFiltered, rawData, response, issued, started, dataSlice, poolVars, run>>

\* Raw: processQuery without Validate.
RawCall ==
    /\ pc = "setup"
    /\ entry' = "Raw"
    /\ pc' = "check"
    /\ first' = IF run = 1 THEN [first EXCEPT !.dt = dt, !.heap = heap] ELSE first
    /\ UNCHANGED <<dt, regVars, srcVars, heap, qBase, qCount, qFiltered, qFinal, nTotal,
                   nFiltered, rawData, err, response, issued, started, dataSlice, poolVars,
                   run>>

\* processQuery: dt.checkComplexQuery(), whose dt.tx.Session(...).Find faults
\* on a nil handle and on a handle without statement, and whose slice of the
\* GROUP BY clause faults on bounds out of order.
CheckComplexQueryStep ==
    /\ pc = "check"
    /\ IF \/ dt.tx = <<>>
          \/ dt.tx[1].Statement = <<>>
          \/ checkComplexQueryFaults(dt, heap)
       THEN /\ pc' = "panic"
            /\ UNCHANGED <<dt, issued>>
       ELSE /\ dt' = checkComplexQuery(dt, heap)
            /\ issued' = Append(issued, "dryrun")
            /\ pc' = "build"
    /\ UNCHANGED <<regVars, srcVars, heap, entry, qBase, qCount, qFiltered, qFinal,
                   nTotal, nFiltered, rawData, err, response, started, dataSlice, poolVars, run,
                   first>>

\* processQuery: the base, count and filtered queries
BuildQueriesStep ==
    /\ pc = "build"
    /\ \E baseQuery \in {buildBaseQuery(dt, heap)} :
       \E countQuery \in {buildCountQuery(dt, baseQuery)} :
       \E filteredQuery \in {buildFilteredQuery(dt, InHeap(countQuery.heap, baseQuery.db))} :
           /\ qBase' = baseQuery.db
           /\ qCount' = countQuery.db
           /\ qFiltered' = filteredQuery.db
           /\ heap' = filteredQuery.heap
    /\ pc' = "total"
    /\ UNCHANGED <<dt, regVars, srcVars, entry, qFinal, nTotal, nFiltered, rawData, err,
                   response, issued, started, dataSlice, poolVars, run, first>>

\* processQuery: total, err := dt.getTotalCount(countQuery)
GetTotalCountStep ==
    /\ pc = "total"
    /\ \E r \in {getTotalCount(dt, InHeap(heap, qCount), Source)} :
           /\ heap' = r.heap
           /\ issued' = issued \o r.issued
           /\ nTotal' = IF r.err # "" THEN nTotal ELSE r.count
           /\ err' = r.err
           /\ pc' = IF r.err # "" THEN "failed" ELSE "filtered"
    /\ UNCHANGED <<dt, regVars, srcVars, entry, qBase, qCount, qFiltered, qFinal,
                   nFiltered, rawData, response, started, dataSlice, poolVars, run, first>>

\* processQuery: filtered, err := dt.getFilteredCount(filteredQuery)
GetFilteredCountStep ==
    /\ pc = "filtered"
    /\ \E r \in {getFilteredCount(dt, InHeap(heap, qFiltered), Source)} :
           /\ heap' = r.heap
           /\ issued' = issued \o r.issued
           /\ nFiltered' = IF r.err # "" THEN nFiltered ELSE r.count
           /\ err' = r.err
           /\ pc' = IF r.err # "" THEN "failed" ELSE "fetch"
    /\ UNCHANGED <<dt, regVars, srcVars, entry, qBase, qCount, qFiltered, qFinal,
                   nTotal, rawData, response, started, dataSlice, poolVars, run, first>>

\* processQuery: applyOrder, applyPagination, executeQuery; Raw returns what
\* processQuery returns.
FetchStep ==
    /\ pc = "fetch"
    /\ \E names \in Orderings(DOMAIN dt.config.DefaultSort) :
        \E o \in {applyOrder(dt, InHeap(heap, qFiltered), names)} :
        \E q \in {applyPagination(dt, o.query)} :
        \E r \in {executeQuery(q, Source)} :
            IF o.panic
            THEN /\ pc' = "panic"
                 /\ heap' = o.query.heap
                 /\ UNCHANGED <<qFinal, rawData, err, issued, response>>
            ELSE /\ qFinal' = q.db
                 /\ heap' = q.heap
                 /\ issued' = Append(issued, "fetch")
                 /\ rawData' = IF r.err # "" THEN rawData ELSE r.rows
                 /\ err' = r.err
                 /\ pc' = IF r.err # "" THEN "failed"
                          ELSE IF entry = "Raw" THEN "done" ELSE "assemble"
                 /\ response' = IF r.err = "" /\ entry = "Raw" THEN <<r.rows>>
                                ELSE response
    /\ UNCHANGED <<dt, regVars, srcVars, entry, qBase, qCount, qFiltered, nTotal,
                   nFiltered, started, dataSlice, poolVars, run, first>>

\* Make after processQuery: the workers, the projection and the response map.
\* The workers run under one lock, each to its end; the step is their effect
\* in the order of the code.
AssembleStep ==
    /\ pc = "assemble"
    /\ started' = WorkerKinds(dt, rawData)
    /\ \E data \in {Decorated(dt, rawData)} :
           /\ dataSlice' = data
           /\ response' = Response(dt, nTotal, nFiltered, ResponseRows(dt, data))
    /\ pc' = "done"
    /\ UNCHANGED <<dt, regVars, srcVars, heap, entry, qBase, qCount, qFiltered, qFinal,
                   nTotal, nFiltered, rawData, err, issued, poolVars, run, first>>

\* The goroutines Make starts for these rows: one numbering worker per row
\* when the "no" column exists, one render worker per row, the custom-column
\* worker and the row-attribute worker.
WorkersOf(d, data) ==
    (IF "no" \in Registered(d) THEN {<<"number", i>> : i \in 1..Len(data)} ELSE {})
    \cup {<<"render", i>> : i \in 1..Len(data)}
    \cup {<<"custom", 0>>, <<"attributes", 0>>}

\* The workers that take a slot of the pool before the lock.
Pooled(w) == w[1] \in {"number", "render"}

\* What a worker does to the rows while it holds the lock.
WorkerBody(d, w, data) ==
    CASE w[1] = "number" -> [data EXCEPT ![w[2]] = NumberRow(d, @, w[2])]
      [] w[1] = "render" -> [data EXCEPT ![w[2]] = RenderRow(d, @, 1)]
      [] w[1] = "custom" -> applyCustomColumns(d, data)
      [] OTHER -> applyRowAttributes(d, data)

\* Make: the go statements.  Every worker is started; none has run.
DispatchStep ==
    /\ pc = "assemble"
    /\ dataSlice' = rawData
    /\ started' = WorkerKinds(dt, rawData)
    /\ workers' = [w \in WorkersOf(dt, rawData) |-> IF Pooled(w) THEN "slot" ELSE "lock"]
    /\ pc' = "wait"
    /\ UNCHANGED <<dt, regVars, srcVars, heap, entry, qBase, qCount, qFiltered, qFinal,
                   nTotal, nFiltered, rawData, err, response, issued, mu, semChan, run,
                   first>>

\* semChan <- struct{}{}
AcquireSlot(w) ==
    /\ workers[w] = "slot"
    /\ semChan.len < semChan.cap
    /\ semChan' = [semChan EXCEPT !.len = @ + 1]
    /\ workers' = [workers EXCEPT ![w] = "lock"]
    /\ UNCHANGED mu

Lock_NoWait(w) ==
    /\ workers[w] = "lock"
    /\ mu' = <<w>>
    /\ workers' = [workers EXCEPT ![w] = "body"]
    /\ UNCHANGED semChan

\* mu.Lock()
Lock(w) ==
    /\ workers[w] = "lock"
    /\ mu = <<>>
    /\ mu' = <<w>>
    /\ workers' = [workers EXCEPT ![w] = "body"]
    /\ UNCHANGED semChan

RunBody_KeepSlot(w) ==
    /\ workers[w] = "body"
    /\ mu' = <<>>
    /\ semChan' = semChan
    /\ workers' = [workers EXCEPT ![w] = "done"]

\* The body of the worker, then its deferred calls: mu.Unlock(), the slot
\* given back, wg.Done().
RunBody(w) ==
    /\ workers[w] = "body"
    /\ mu' = <<>>
    /\ semChan' = IF Pooled(w) THEN [semChan EXCEPT !.len = @ - 1] ELSE semChan
    /\ workers' = [workers EXCEPT ![w] = "done"]

WorkerStep ==
    /\ pc = "wait"
    /\ \E w \in DOMAIN workers :
          \/ AcquireSlot(w) /\ UNCHANGED dataSlice
          \/ Lock(w) /\ UNCHANGED dataSlice
          \/ RunBody(w) /\ dataSlice' = WorkerBody(dt, w, dataSlice)
    /\ UNCHANGED <<dt, regVars, srcVars, heap, entry, pc, qBase, qCount, qFiltered,
                   qFinal, nTotal, nFiltered, rawData, err, response, issued, started,
                   run, first>>

\* wg.Wait() returns; the projection and the response map.
BarrierStep ==
    /\ pc = "wait"
    /\ \A w \in DOMAIN workers : workers[w] = "done"
    /\ response' = Response(dt, nTotal, nFiltered, ResponseRows(dt, dataSlice))
    /\ pc' = "done"
    /\ UNCHANGED <<dt, regVars, srcVars, heap, entry, qBase, qCount, qFiltered, qFinal,
                   nTotal, nFiltered, rawData, err, issued, started, dataSlice, poolVars,
                   run, first>>

MakeSteps ==
    \/ MakeCall
    \/ CheckComplexQueryStep
    \/ BuildQueriesStep
    \/ GetTotalCountStep
    \/ GetFilteredCountStep
    \/ FetchStep
    \/ AssembleStep

(***************************************************************************)
(* Inputs                                                                   *)
(***************************************************************************)
\* Handles whose chain methods work on a copy of the statement, as those of
\* gorm.Open and of Session(&gorm.Session{}) do: db.Model(&User{}) with nothing
\* else, with Group("g"), and with Group("g").Having("total > 1").
PlainTx == WithModel(EmptyStatement, <<"struct", "User">>)

GroupedTx == Group(PlainTx, <<"g">>)

GroupedHavingTx == Having(GroupedTx, <<"total", ">", "1">>)

\* The handle New receives: statement 1 of the heap, reached through
\* Session(&gorm.Session{}).
Handle == <<DB(1, 2)>>

ColumnsA ==
    << [Searchable |-> TRUE, Orderable |-> TRUE, Data |-> "id", Name |-> "id"],
       [Searchable |-> TRUE, Orderable |-> TRUE, Data |-> "name", Name |-> "name"] >>

\* A column that is neither searchable nor orderable, and one sent twice.
ColumnsB ==
    << [Searchable |-> FALSE, Orderable |-> FALSE, Data |-> "id", Name |-> "id"],
       [Searchable |-> TRUE, Orderable |-> TRUE, Data |-> "name", Name |-> "name"],
       [Searchable |-> TRUE, Orderable |-> TRUE, Data |-> "name", Name |-> "name"] >>

Searches ==
    { [Value |-> "", Regex |-> FALSE], [Value |-> "John", Regex |-> FALSE],
      [Value |-> "John", Regex |-> TRUE] }

Orders ==
    { <<>>,
      <<[Column |-> 0, Dir |-> "desc"]>>,
      <<[Column |-> 1, Dir |-> "up"], [Column |-> 0, Dir |-> "Desc"]>>,
      <<[Column |-> 7, Dir |-> "asc"], [Column |-> 1, Dir |-> "DESC"]>>,
      <<[Column |-> -1, Dir |-> "asc"], [Column |-> 1, Dir |-> "asc"]>> }

QueryRequests ==
    { [Draw |-> 1, Start |-> 0, Length |-> 2, Search |-> s, Order |-> o, Columns |-> c] :
        s \in Searches, o \in Orders, c \in {ColumnsA, ColumnsB} }

\* Pagination windows: Length -1 is the grid's "all rows".
Windows == { [Start |-> st, Length |-> ln] : st \in {0, 1}, ln \in {-1, 0, 2} }

MakeRequests ==
    { [Draw |-> 1, Start |-> w.Start, Length |-> w.Length,
       Search |-> [Value |-> v, Regex |-> FALSE],
       Order |-> <<[Column |-> 0, Dir |-> "asc"]>>, Columns |-> ColumnsA] :
        w \in Windows, v \in {"", "John"} }

DefaultSorts ==
    { ("name" :> "DESC"),
      ("id" :> "desc") @@ ("name" :> "ASC"),
      ("ghost" :> "DESC") @@ ("name" :> "up") }

QueryConfigs ==
    { [DefaultConfig EXCEPT !.DefaultSort = m] : m \in DefaultSorts }
    \cup { [DefaultConfig EXCEPT !.Union = TRUE] }

MakeConfigs ==
    { [DefaultConfig EXCEPT !.GroupBy = << <<"g">> >>],
      [DefaultConfig EXCEPT !.GroupBy = << <<"g">> >>, !.Having = << <<"total", ">", "1">> >>] }

\* WithData arguments: an extra key, and the key of a reserved field.
ExtraData == { <<"source", 1>>, <<"recordsTotal", 99>>, <<"recordsFiltered", 98>> }

PresetCounts == {7}

(***************************************************************************)
(* Query construction: New(tx).Req(r), policy and configuration calls, Make *)
(***************************************************************************)
InitQuery ==
    /\ dt \in { Req(NewDataTable(Handle), r) : r \in QueryRequests }
    /\ heap = <<PlainTx>>
    /\ calls = 0
    /\ hist = <<NoCall, NoCall>>
    /\ prev = New
    /\ db = UsersTable
    /\ failAt = ""
    /\ semChan = make(2 * NumCPU)
    /\ form = <<>>
    /\ parsed = <<>>
    /\ MakeNotStarted
    /\ run = 1
    /\ first = NoOutcome

SetupWhitelist == \E k \in {"id", "name"} : Setup(WhitelistColumn(dt, {k}))

SetupBlacklist == \E k \in {"id", "name"} : Setup(BlacklistColumn(dt, {k}))

SetupAddColumn == \E col \in ColumnInputs : Setup(AddColumn(dt, col))

SetupQueryConfig == \E c \in QueryConfigs : Setup(SetConfig(dt, c))

SetupDisableSearch == Setup(DisableSearch(dt))

SetupDisableOrder == Setup(DisableOrder(dt))

SetupCaseInsensitive == Setup(CaseInsensitive(dt))

NextQuery ==
    \/ SetupWhitelist
    \/ SetupBlacklist
    \/ SetupAddColumn
    \/ SetupQueryConfig
    \/ SetupDisableSearch
    \/ SetupDisableOrder
    \/ SetupCaseInsensitive
    \/ MakeSteps

SpecQuery == InitQuery /\ [][NextQuery]_vars

(***************************************************************************)
(* Counting and paging: New(tx).Req(r), count and configuration calls, Make,*)
(* then the same configuration on a request with another window             *)
(***************************************************************************)
Init ==
    /\ dt \in { Req(NewDataTable(Handle), r) : r \in MakeRequests }
    /\ heap \in { <<tx>> : tx \in {PlainTx, GroupedTx, GroupedHavingTx} }
    /\ calls = 0
    /\ hist = <<NoCall, NoCall>>
    /\ prev = New
    /\ db \in Tables
    /\ failAt = ""
    /\ semChan = make(2 * NumCPU)
    /\ form = <<>>
    /\ parsed = <<>>
    /\ MakeNotStarted
    /\ run = 1
    /\ first = NoOutcome

SetupTotalRecords == \E n \in PresetCounts : Setup(SetTotalRecords(dt, n))

SetupFilteredRecords == \E n \in PresetCounts : Setup(SetFilteredRecords(dt, n))

SetupWithData == \E kv \in ExtraData : Setup(WithData(dt, kv[1], kv[2]))

SetupDisablePagination == Setup(DisablePagination(dt))

SetupMakeConfig == \E c \in MakeConfigs : Setup(SetConfig(dt, c))

\* A second DataTable, configured as the first was, processes a request that
\* differs from the first in Start and Length only.
NextRequest ==
    /\ pc = "done"
    /\ run = 1
    /\ \E w \in Windows :
          dt' = [first.dt EXCEPT !.req.Start = w.Start, !.req.Length = w.Length]
    /\ first' = [first EXCEPT !.done = TRUE, !.total = response["recordsTotal"],
                              !.filtered = response["recordsFiltered"]]
    /\ run' = 2
    /\ pc' = "setup"
    /\ heap' = first.heap
    /\ qBase' = NoQuery
    /\ qCount' = NoQuery
    /\ qFiltered' = NoQuery
    /\ qFinal' = NoQuery
    /\ nTotal' = 0
    /\ nFiltered' = 0
    /\ rawData' = <<>>
    /\ err' = ""
    /\ response' = <<>>
    /\ issued' = <<>>
    /\ entry' = ""
    /\ started' = {}
    /\ dataSlice' = <<>>
    /\ UNCHANGED <<regVars, srcVars, poolVars>>

Next ==
    \/ SetupTotalRecords
    \/ SetupFilteredRecords
    \/ SetupWithData
    \/ SetupDisablePagination
    \/ SetupMakeConfig
    \/ NextRequest
    \/ MakeSteps

Spec == Init /\ [][Next]_vars

(***************************************************************************)
(* An HTTP handler: ParseRequest on the form, then New(tx).Req(req)        *)
(***************************************************************************)
FormColumns ==
    { <<>>,
      <<[data |-> "id", name |-> "id", searchable |-> "true", orderable |-> "true"]>>,
      <<[data |-> "id", name |-> "id", searchable |-> "true", orderable |-> "false"],
        [data |-> "name", name |-> "name", searchable |-> "false", orderable |-> "true"]>>,
      <<[data |-> "", name |-> "id", searchable |-> "true", orderable |-> "true"],
        [data |-> "name", name |-> "name", searchable |-> "true", orderable |-> "true"]>> }

FormOrders ==
    { <<>>,
      <<[column |-> "1", dir |-> "desc"]>>,
      <<[column |-> "99", dir |-> "asc"]>>,
      <<[column |-> "x", dir |-> "asc"], [column |-> "-1", dir |-> "asc"]>> }

Forms ==
    { [draw |-> d, start |-> st, length |-> ln, searchValue |-> "test",
       searchRegex |-> rx, columns |-> c, order |-> o] :
        d \in {"", "1", "x"}, st \in {"", "0", "x"}, ln \in {"", "10", "-1", "x"},
        rx \in {"", "false", "T", "invalid"}, c \in FormColumns, o \in FormOrders }

InitParse ==
    /\ dt = NewDataTable(Handle)
    /\ heap = <<PlainTx>>
    /\ calls = 0
    /\ hist = <<NoCall, NoCall>>
    /\ prev = New
    /\ db = UsersTable
    /\ failAt = ""
    /\ semChan = make(2 * NumCPU)
    /\ form \in Forms
    /\ parsed = <<>>
    /\ MakeNotStarted
    /\ run = 1
    /\ first = NoOutcome

\* req, err := ParseRequest(r)
ParseStep ==
    /\ parsed = <<>>
    /\ parsed' = <<ParseRequest(form)>>
    /\ UNCHANGED <<dt, regVars, db, failAt, form, makeVars, run, first>>

\* The handler, when err is nil: New(tx).Req(req)
ReqStep ==
    /\ parsed # <<>>
    /\ parsed[1].err = ""
    /\ dt = NewDataTable(Handle)
    /\ dt' = Req(dt, parsed[1].req[1])
    /\ UNCHANGED <<regVars, srcVars, makeVars, run, first>>

NextParse ==
    \/ ParseStep
    \/ ReqStep

SpecParse == InitParse /\ [][NextParse]_vars

(***************************************************************************)
(* Make on every kind of data source handle, with and without a bound model *)
(***************************************************************************)
\* New(nil)
NilTx == <<>>

\* New(&gorm.DB{}): a handle without statement.
NoStatementTx == <<[Statement |-> <<>>, clone |-> 0]>>

\* db.Table("users") and db.Table(""): a table expression and no model.
TableTx == [EmptyStatement EXCEPT !.TableExpr = <<[SQL |-> <<"users">>, Sub |-> <<>>]>>]

BlankTableTx == [EmptyStatement EXCEPT !.TableExpr = <<[SQL |-> <<>>, Sub |-> <<>>]>>]

\* db.Table("(SELECT g FROM users HAVING g > 1) AS u").Group("g"): a text in
\* which HAVING comes before the first GROUP BY.
HavingFirstTx ==
    Group([EmptyStatement EXCEPT !.TableExpr =
                <<[SQL |-> <<"(", "SELECT", "g", "FROM", "users", "HAVING", "g", ">", "1",
                             ")", "AS", "u">>,
                   Sub |-> <<>>]>>],
          <<"g">>)

\* Requests with and without draw token, columns and regex search.
ValidateRequests ==
    { [Draw |-> d, Start |-> 0, Length |-> 2, Search |-> s, Order |-> <<>>, Columns |-> c] :
        d \in {0, 1}, c \in {<<>>, ColumnsA},
        s \in {[Value |-> "", Regex |-> FALSE], [Value |-> "(", Regex |-> TRUE],
               [Value |-> "(", Regex |-> FALSE], [Value |-> "John", Regex |-> TRUE]} }

SetupModel == Setup(Model(dt, <<"struct", "User">>))

InitValidate ==
    /\ dt \in { Req(NewDataTable(tx), r) : tx \in {NilTx, NoStatementTx, Handle},
                                           r \in ValidateRequests }
    /\ heap \in { <<stmt>> : stmt \in {PlainTx, EmptyStatement, TableTx, BlankTableTx,
                                       HavingFirstTx} }
    /\ calls = 0
    /\ hist = <<NoCall, NoCall>>
    /\ prev = New
    /\ db = UsersTable
    /\ failAt = ""
    /\ semChan = make(2 * NumCPU)
    /\ form = <<>>
    /\ parsed = <<>>
    /\ MakeNotStarted
    /\ run = 1
    /\ first = NoOutcome

NextValidate ==
    \/ SetupModel
    \/ MakeSteps

SpecValidate == InitValidate /\ [][NextValidate]_vars

(***************************************************************************)
(* Make and Raw on a data source that may fail one of the three queries,    *)
(* after builder calls that register hooks, policy, extras and row work     *)
(***************************************************************************)
\* Where the data source fails: nowhere, or at one kind of query.
Failures == {"", "total", "filtered", "fetch"}

TableRequests ==
    { [Draw |-> 3, Start |-> st, Length |-> 2, Search |-> [Value |-> "", Regex |-> FALSE],
       Order |-> <<>>, Columns |-> ColumnsA] : st \in {0, 1} }

FilterFuncs == {"groupByG", "whereJohn"}

\* Columns with a render function of the caller.
RenderedColumns ==
    { [Searchable |-> TRUE, Orderable |-> TRUE, Name |-> "id", Data |-> "id",
       RenderFunc |-> <<"user", "R1">>] }

InitMake ==
    /\ dt \in { Req(NewDataTable(Handle), r) : r \in TableRequests }
    /\ heap = <<PlainTx>>
    /\ calls = 0
    /\ hist = <<NoCall, NoCall>>
    /\ prev = New
    /\ db = UsersTable
    /\ failAt \in Failures
    /\ semChan = make(2 * NumCPU)
    /\ form = <<>>
    /\ parsed = <<>>
    /\ MakeNotStarted
    /\ run = 1
    /\ first = NoOutcome

SetupFilter == \E f \in FilterFuncs : Setup(Filter(dt, f))

SetupWithNumber == Setup(WithNumber(dt))

SetupOnly == Setup(Only(dt, <<"id">>))

SetupExtra == \E kv \in ExtraData \cup {<<"draw", 0>>, <<"data", <<>>>>} :
                Setup(WithData(dt, kv[1], kv[2]))

SetupRender == \E col \in RenderedColumns : Setup(AddColumn(dt, col))

SetupRowAttributes == Setup(SetRowAttributes(dt, <<"rowId", "id">>, "row", <<"rowData", "name">>))

SetupPresetTotal == \E n \in PresetCounts : Setup(SetTotalRecords(dt, n))

NextMake ==
    \/ SetupFilter
    \/ SetupWithNumber
    \/ SetupBlacklist
    \/ SetupOnly
    \/ SetupExtra
    \/ SetupRender
    \/ SetupRowAttributes
    \/ SetupPresetTotal
    \/ SetupModel
    \/ RawCall
    \/ MakeSteps

SpecMake == InitMake /\ [][NextMake]_vars

(***************************************************************************)
(* Column registry: properties                                              *)
(***************************************************************************)
Filtered == getFilteredColumns(dt)

LastCall == hist[2]

\* C1: for every whitelist, blacklist and key, isColumnAllowed(key) is true
\* exactly when both sets are empty, or the whitelist is non-empty and holds
\* the key, or the whitelist is empty and the blacklist does not hold the key.
C1_AllowedRule ==
    \A key \in Keys :
        isColumnAllowed(dt, key) <=>
            \/ (dt.whitelistColumns = {} /\ dt.blacklistColumns = {})
            \/ (dt.whitelistColumns # {} /\ key \in dt.whitelistColumns)
            \/ (dt.whitelistColumns = {} /\ key \notin dt.blacklistColumns)

\* A non-empty whitelist beside a non-empty blacklist: a key in both is
\* allowed, a key in neither is not.
C1_Witness ==
    /\ \E key \in Keys :
          /\ key \in dt.whitelistColumns /\ key \in dt.blacklistColumns
          /\ isColumnAllowed(dt, key)
    /\ \E key \in Keys :
          /\ key \notin dt.whitelistColumns /\ key \notin dt.blacklistColumns
          /\ ~isColumnAllowed(dt, key)

\* C2: AddColumn called twice with the same data key leaves exactly one entry
\* for that key in the defined-column list, and the entry getFilteredColumns
\* returns for the key carries the fields of the second call.
C2_SecondAddWins ==
    (/\ hist[1].op = "AddColumn" /\ hist[2].op = "AddColumn"
     /\ hist[1].col.Data = hist[2].col.Data)
    => /\ Cardinality({ i \in 1..Len(dt.columns) :
                          dt.columns[i].Data = hist[2].col.Data }) = 1
       /\ \A i \in 1..Len(Filtered) :
              Filtered[i].Data = hist[2].col.Data => Filtered[i] = hist[2].col

\* C3: getFilteredColumns() right after RemoveColumn(K...) returns no column
\* whose data key is in K, whatever the projection list and the policy are.
C3_RemovedNotReturned ==
    LastCall.op = "RemoveColumn"
    => \A i \in 1..Len(Filtered) : Filtered[i].Data \notin LastCall.keys

\* RemoveColumn took away a column that getFilteredColumns returned before,
\* with a projection list active, and another column is still returned.
C3_Witness ==
    /\ LastCall.op = "RemoveColumn"
    /\ Len(prev.selectedColumns) > 0
    /\ \E i \in 1..Len(getFilteredColumns(prev)) :
          getFilteredColumns(prev)[i].Data \in LastCall.keys
    /\ Len(Filtered) > 0

\* The data keys a DataTable knows: in the index, the list or the projection.
KnownKeys(d) ==
    Registered(d) \cup { d.columns[i].Data : i \in 1..Len(d.columns) }
                  \cup Range(d.selectedColumns)

\* C4: EditColumn or RemoveColumn called only with data keys that are not
\* registered leaves the defined-column list, the column index (with every
\* render function) and the projection list unchanged.
C4_UnknownKeyNoOp ==
    (/\ LastCall.op \in {"EditColumn", "RemoveColumn"}
     /\ LastCall.keys \cap KnownKeys(prev) = {})
    => /\ dt.columns = prev.columns
       /\ dt.columnsMap = prev.columnsMap
       /\ dt.selectedColumns = prev.selectedColumns

(***************************************************************************)
(* Query construction: properties                                           *)
(***************************************************************************)
\* The queries of processQuery have been built, and the filtered query has
\* not yet been ordered and paginated.
Built == pc \in {"total", "filtered", "fetch"}

\* The final query has been built and executed.
Fetched == pc \in {"assemble", "done"}

\* The statements the queries of processQuery point to.
sBase == heap[qBase.Statement[1]]

sFiltered == heap[qFiltered.Statement[1]]

sFinal == heap[qFinal.Statement[1]]

WhereOf(stmt) == IF HasClause(stmt, "WHERE") THEN stmt.Clauses["WHERE"] ELSE <<>>

OrderTerms == IF HasClause(sFinal, "ORDER BY") THEN sFinal.Clauses["ORDER BY"] ELSE <<>>

\* The request columns the search has to cover.
SearchColumns ==
    SelectSeq(dt.req.Columns,
        LAMBDA c : /\ isColumnAllowed(dt, c.Data)
                   /\ c.Data \in Registered(dt)
                   /\ dt.columnsMap[c.Data].Searchable)

SearchActive == dt.config.Searchable /\ dt.req.Search.Value # ""

\* C5: with search enabled, a non-empty search value and at least one request
\* column that is allowed and registered searchable, the filtered query is the
\* base query with one more WHERE expression, a disjunction holding one
\* predicate per such request column, in request order, on the registered
\* name; otherwise the filtered query is the base query itself.
C5_SearchDisjunction ==
    Built =>
        IF SearchActive /\ Len(SearchColumns) > 0
        THEN /\ Len(WhereOf(sFiltered)) = Len(WhereOf(sBase)) + 1
             /\ SubSeq(WhereOf(sFiltered), 1, Len(WhereOf(sBase))) = WhereOf(sBase)
             /\ DeleteClause(sFiltered, "WHERE") = DeleteClause(sBase, "WHERE")
             /\ LET added == WhereOf(sFiltered)[Len(WhereOf(sFiltered))].Conds
                IN  /\ Len(added) = Len(SearchColumns)
                    /\ \A i \in 1..Len(added) :
                          added[i].Column = dt.columnsMap[SearchColumns[i].Data].Name
        ELSE sFiltered = sBase

\* A search that covers one request column and leaves out another that is
\* registered searchable but hidden by the visibility policy.
C5_Witness ==
    /\ pc = "fetch"
    /\ SearchActive
    /\ Len(SearchColumns) > 0
    /\ \E i \in 1..Len(dt.req.Columns) :
          /\ ~isColumnAllowed(dt, dt.req.Columns[i].Data)
          /\ dt.req.Columns[i].Data \in Registered(dt)
          /\ dt.columnsMap[dt.req.Columns[i].Data].Searchable

\* Order entry i is one that applyOrder has to skip.
SkippedEntry(i) ==
    LET idx == dt.req.Order[i].Column
    IN  \/ idx \notin 0..(Len(dt.req.Columns) - 1)
        \/ ~isColumnAllowed(dt, dt.req.Columns[idx + 1].Data)
        \/ dt.req.Columns[idx + 1].Data \notin Registered(dt)
        \/ ~dt.columnsMap[dt.req.Columns[idx + 1].Data].Orderable

IsDescending(dir) == dir \in {"DESC", "desc", "Desc"}

\* The order-by term order entry i stands for.
EntryTerm(i) ==
    [Name |-> dt.columnsMap[dt.req.Columns[dt.req.Order[i].Column + 1].Data].Name,
     Desc |-> IsDescending(dt.req.Order[i].Dir)]

\* C6: applyOrder never fails, and with ordering enabled and no union shape
\* every order-by term of the final query is the term of an order entry that
\* is not skipped (index in range, column allowed and registered orderable),
\* and every such entry with a non-empty name has its term.
C6_OrderNeverFails ==
    /\ pc # "panic"
    /\ (Fetched /\ dt.config.Orderable /\ ~dt.config.Union /\ Len(dt.req.Order) > 0) =>
          /\ \A t \in 1..Len(OrderTerms) :
                \E i \in 1..Len(dt.req.Order) : ~SkippedEntry(i) /\ OrderTerms[t] = EntryTerm(i)
          /\ \A i \in 1..Len(dt.req.Order) :
                (~SkippedEntry(i) /\ EntryTerm(i).Name # "") =>
                    \E t \in 1..Len(OrderTerms) : OrderTerms[t] = EntryTerm(i)

\* The name a DefaultSort key resolves to.
SortName(k) ==
    IF dt.columnsMap[k].Name = "" THEN dt.columnsMap[k].Data ELSE dt.columnsMap[k].Name

\* The DefaultSort keys that are not skipped.
DefaultKeys ==
    { k \in DOMAIN dt.config.DefaultSort : k \in Registered(dt) /\ SortName(k) # "" }

\* C7: with ordering enabled and no union shape, a request without order
\* entries is ordered by exactly one term per DefaultSort key that is
\* registered and resolves to a non-empty name (the name, or the data key when
\* the name is empty), in the mapped direction; a request with order entries
\* is ordered by terms of its own entries only.
C7_DefaultSortFallback ==
    (Fetched /\ dt.config.Orderable /\ ~dt.config.Union) =>
        IF Len(dt.req.Order) = 0
        THEN /\ Len(OrderTerms) = Cardinality(DefaultKeys)
             /\ Range(OrderTerms) =
                   { [Name |-> SortName(k), Desc |-> IsDescending(dt.config.DefaultSort[k])] :
                       k \in DefaultKeys }
        ELSE \A t \in 1..Len(OrderTerms) :
                \E i \in 1..Len(dt.req.Order) :
                    /\ dt.req.Order[i].Column \in 0..(Len(dt.req.Columns) - 1)
                    /\ OrderTerms[t] = EntryTerm(i)

\* A request without order entries, a DefaultSort with a key that is not
\* registered and a key whose column has an empty name: one term, by data key.
C7_Witness ==
    /\ pc = "done"
    /\ dt.config.Orderable /\ ~dt.config.Union
    /\ Len(dt.req.Order) = 0
    /\ "ghost" \in DOMAIN dt.config.DefaultSort
    /\ dt.columnsMap["name"].Name = ""
    /\ OrderTerms = <<[Name |-> "name", Desc |-> FALSE]>>

(***************************************************************************)
(* Counting and paging: properties                                          *)
(***************************************************************************)
\* Both counts have been resolved.
Counted == pc \in {"fetch", "assemble", "done"}

\* C8 as stated: with a pre-set total (filtered) count, no total-count
\* (filtered-count) query is issued and the response reports the pre-set value.
C8_PresetReported ==
    pc = "done" =>
        /\ dt.totalRecords # <<>> =>
              /\ "total" \notin Range(issued)
              /\ response["recordsTotal"] = dt.totalRecords[1]
        /\ dt.filteredRecords # <<>> =>
              /\ Range(issued) \cap {"filtered:count", "filtered:subquery"} = {}
              /\ response["recordsFiltered"] = dt.filteredRecords[1]

\* C8: with a pre-set total (filtered) count, no total-count (filtered-count)
\* query is issued, processQuery resolves the count to the pre-set value, and
\* the response reports it unless an extra registered with WithData has the
\* key of that response field.
C8_PresetBypassesCount ==
    /\ (Counted /\ dt.totalRecords # <<>>) =>
          /\ "total" \notin Range(issued)
          /\ nTotal = dt.totalRecords[1]
          /\ (pc = "done" /\ "recordsTotal" \notin DOMAIN dt.additionalData) =>
                response["recordsTotal"] = dt.totalRecords[1]
    /\ (Counted /\ dt.filteredRecords # <<>>) =>
          /\ Range(issued) \cap {"filtered:count", "filtered:subquery"} = {}
          /\ nFiltered = dt.filteredRecords[1]
          /\ (pc = "done" /\ "recordsFiltered" \notin DOMAIN dt.additionalData) =>
                response["recordsFiltered"] = dt.filteredRecords[1]

\* A finished request with a pre-set total that differs from the number of
\* rows in the table, reported as pre-set, the filtered count being queried.
C8_Witness ==
    /\ pc = "done"
    /\ dt.totalRecords # <<>>
    /\ dt.totalRecords[1] # Len(db)
    /\ dt.filteredRecords = <<>>
    /\ response["recordsTotal"] = dt.totalRecords[1]
    /\ issued = <<"dryrun", "filtered:count", "fetch">>

\* The rows of the table that the request's search keeps.
MatchingRows ==
    SelectSeq(db, LAMBDA r :
        \/ ~SearchActive
        \/ \E c \in {"id", "name"} : ToLower(r[c]) = ToLower(dt.req.Search.Value))

\* The groups of the matching rows by g that the configured HAVING keeps.
GroupsCounted ==
    { g \in { MatchingRows[i].g : i \in 1..Len(MatchingRows) } :
        \/ dt.config.Having = <<>>
        \/ Cardinality({ i \in 1..Len(MatchingRows) : MatchingRows[i].g = g }) > 1 }

\* C9: when Config.GroupBy is non-empty at counting time and no filtered
\* count is pre-set, the filtered count comes from the subquery strategy and
\* is the number of groups of the filtered rows; the plain COUNT is issued
\* only when Config.GroupBy is empty.
C9_GroupedCount ==
    (Counted /\ dt.filteredRecords = <<>>) =>
        /\ Len(dt.config.GroupBy) > 0 =>
              /\ "filtered:subquery" \in Range(issued)
              /\ "filtered:count" \notin Range(issued)
              /\ nFiltered = Cardinality(GroupsCounted)
        /\ "filtered:count" \in Range(issued) => Len(dt.config.GroupBy) = 0

\* Four filtered rows in two groups counted as two.
C9_Witness ==
    /\ Counted
    /\ dt.filteredRecords = <<>>
    /\ Len(dt.config.GroupBy) > 0
    /\ Len(MatchingRows) = 4
    /\ nFiltered = 2

\* C10 as stated: the second request, which differs from the first in Start
\* and Length only, reports the counts of the first, and a request with
\* Length = 0 returns zero data rows.
C10_WindowIndependence ==
    /\ (run = 2 /\ pc = "done") =>
          /\ response["recordsTotal"] = first.total
          /\ response["recordsFiltered"] = first.filtered
    /\ (pc = "done" /\ dt.req.Length = 0) => Len(response["data"]) = 0

\* C10: the second request, which differs from the first in Start and Length
\* only, reports the counts of the first, and with pagination enabled a
\* request with Length = 0 returns zero data rows.
C10_WindowIndependencePaginated ==
    /\ (run = 2 /\ pc = "done") =>
          /\ response["recordsTotal"] = first.total
          /\ response["recordsFiltered"] = first.filtered
    /\ (pc = "done" /\ dt.config.Paginate /\ dt.req.Length = 0) =>
          Len(response["data"]) = 0

\* A second request with Length = 0 after a first one with another Length:
\* no rows, and the non-zero counts of the first.
C10_Witness ==
    /\ run = 2
    /\ pc = "done"
    /\ dt.config.Paginate
    /\ dt.req.Length = 0
    /\ first.dt.req.Length # 0
    /\ Len(response["data"]) = 0
    /\ response["recordsTotal"] = first.total
    /\ first.total > 0
    /\ first.filtered > 0

(***************************************************************************)
(* Make and Raw: properties                                                 *)
(***************************************************************************)
\* The kind of an issued query.
QueryKind(q) == IF q \in {"filtered:count", "filtered:subquery"} THEN "filtered" ELSE q

\* The queries the data source has seen (the dry run never reaches it).
Seen == SelectSeq(issued, LAMBDA q : q # "dryrun")

\* The data source has failed a query of this call.
SourceFailed == \E i \in 1..Len(Seen) : QueryKind(Seen[i]) = failAt

\* C11: when the total-count, filtered-count or fetch query fails, the call
\* has ended with the data source's own error, it has returned no response,
\* and no numbering, render, custom-column or row-attribute worker has been
\* started.
C11_QueryFailureAborts ==
    /\ SourceFailed => pc = "failed" /\ err = ErrSource
    /\ pc = "failed" /\ Seen # <<>> =>
          /\ err \in {ErrSource, ErrStatement}
          /\ response = <<>>
          /\ started = {}
          /\ dataSlice = <<>>

\* A Make with row attributes registered, whose fetch the data source failed.
C11_Witness ==
    /\ entry = "Make"
    /\ pc = "failed"
    /\ failAt = "fetch"
    /\ Seen = <<"total", "filtered:count", "fetch">>
    /\ dt.rowIdFunc # <<>>

(***************************************************************************)
(* Make on a query the caller built: the handle New receives is the one the *)
(* caller's chain returned, or a Session(&gorm.Session{}) of it             *)
(***************************************************************************)
\* The clone mode of the caller's handle: 0 after a chain call such as
\* db.Model(&User{}).Group("g"), 2 after Session(&gorm.Session{}).
CallerHandles == { <<DB(1, c)>> : c \in {0, 2} }

DeriveRequests == { r \in MakeRequests : r.Start = 0 /\ r.Length = 2 }

InitDerive ==
    /\ dt \in { Req(NewDataTable(tx), r) : tx \in CallerHandles, r \in DeriveRequests }
    /\ heap \in { <<tx>> : tx \in {PlainTx, GroupedTx, GroupedHavingTx} }
    /\ calls = 0
    /\ hist = <<NoCall, NoCall>>
    /\ prev = New
    /\ db = UsersTable
    /\ failAt = ""
    /\ semChan = make(2 * NumCPU)
    /\ form = <<>>
    /\ parsed = <<>>
    /\ MakeNotStarted
    /\ run = 1
    /\ first = NoOutcome

NextDerive ==
    \/ SetupMakeConfig
    \/ SetupFilter
    \/ SetupPresetTotal
    \/ RawCall
    \/ MakeSteps

SpecDerive == InitDerive /\ [][NextDerive]_vars

(***************************************************************************)
(* The workers of Make, one step of one goroutine at a time                 *)
(***************************************************************************)
\* Machines: the pool holds runtime.NumCPU()*2 slots.
Machines == {1, 2}

\* Editors as the tests install them in dt.customCols: <<name, key read, key
\* written>>.
CustomColumns == { <<>>, << <<"C1", "id", "custom">> >> }

\* Columns whose render function reads a cell that another worker writes.
WorkerColumns ==
    { [Searchable |-> TRUE, Orderable |-> TRUE, Name |-> "id", Data |-> "id",
       RenderFunc |-> <<"user", "R1">>],
      [Searchable |-> TRUE, Orderable |-> TRUE, Name |-> "name", Data |-> "name",
       RenderFunc |-> <<"user", "Rno">>] }

InitWorkers ==
    /\ dt \in { [Req(NewDataTable(Handle), r) EXCEPT !.customCols = c] :
                    r \in { q \in TableRequests : q.Start = 0 }, c \in CustomColumns }
    /\ heap = <<PlainTx>>
    /\ calls = 0
    /\ hist = <<NoCall, NoCall>>
    /\ prev = New
    /\ db = SubSeq(UsersTable, 1, 2)
    /\ failAt = ""
    /\ semChan \in { make(2 * n) : n \in Machines }
    /\ form = <<>>
    /\ parsed = <<>>
    /\ MakeNotStarted
    /\ run = 1
    /\ first = NoOutcome

SetupWorkerColumn == \E col \in WorkerColumns : Setup(AddColumn(dt, col))

SetupEditColumn == \E f \in EditFuncs : Setup(EditColumn(dt, "name", f))

NextWorkers ==
    \/ SetupWithNumber
    \/ SetupWorkerColumn
    \/ SetupEditColumn
    \/ SetupRowAttributes
    \/ MakeCall
    \/ CheckComplexQueryStep
    \/ BuildQueriesStep
    \/ GetTotalCountStep
    \/ GetFilteredCountStep
    \/ FetchStep
    \/ DispatchStep
    \/ WorkerStep
    \/ BarrierStep

SpecWorkers == InitWorkers /\ [][NextWorkers]_vars

\* The scheduler runs a goroutine that can take a step, and the goroutine of
\* Make when wg.Wait() can return.
FairSpecWorkers == SpecWorkers /\ WF_vars(WorkerStep) /\ WF_vars(BarrierStep)

(***************************************************************************)
(* Validate: properties                                                     *)
(***************************************************************************)
\* Make has run Validate and stopped on its error before any query.
ValidationFailed == entry = "Make" /\ pc = "failed" /\ issued = <<>>

\* The DataTable and the statements as Make found them.
Given == first.dt

GivenStatement == first.heap[Given.tx[1].Statement[1]]

\* The cases in which a validation error is due.
NoSourceNoModel == Given.tx = <<>> /\ Given.model = <<>>

NoStatement == Given.tx # <<>> /\ Given.tx[1].Statement = <<>>

NoIdentity ==
    /\ Given.tx # <<>>
    /\ Given.tx[1].Statement # <<>>
    /\ Given.model = <<>>
    /\ GivenStatement.Model = <<>>
    /\ GivenStatement.TableExpr = <<>> \/ GivenStatement.TableExpr[1].SQL = <<>>

EmptyRequest == Given.req.Draw = 0 /\ Len(Given.req.Columns) = 0

BadRegex == Given.req.Search.Regex /\ ~RegexCompiles(Given.req.Search.Value)

\* C12: Make returns a validation error, before any query or dry run, exactly
\* when there is no data source and no bound model, or a data source without
\* statement, or one with neither a model nor a non-empty table expression, or
\* a request with Draw = 0 and no columns, or a regex search that does not
\* compile; in every other case validation passes.
C12_ValidationCases ==
    entry = "Make" =>
        (ValidationFailed <=>
            NoSourceNoModel \/ NoStatement \/ NoIdentity \/ EmptyRequest \/ BadRegex)

(***************************************************************************)
(* The response of Make: properties                                         *)
(***************************************************************************)
MakeDone == entry = "Make" /\ pc = "done"

ReservedKeys == {"draw", "recordsTotal", "recordsFiltered", "data"}

\* What Make computed for each field of the response.
Core ==
    [draw |-> dt.req.Draw, recordsTotal |-> nTotal, recordsFiltered |-> nFiltered,
     data |-> ResponseRows(dt, dataSlice)]

\* C13: every successful response holds draw, recordsTotal, recordsFiltered
\* and data, equal to the request's draw token, the resolved counts and the
\* row array, whatever extras were registered with WithData.
C13_ResponseFields ==
    MakeDone =>
        /\ ReservedKeys \subseteq DOMAIN response
        /\ \A k \in ReservedKeys : response[k] = Core[k]

\* C13 as the code has it: the four keys are always present, every extra is
\* present with its value, and each of the four fields holds what Make
\* computed unless an extra was registered under that key.
C13_ResponseFieldsUnlessExtra ==
    MakeDone =>
        /\ DOMAIN response = ReservedKeys \cup DOMAIN dt.additionalData
        /\ \A k \in DOMAIN dt.additionalData : response[k] = dt.additionalData[k]
        /\ \A k \in ReservedKeys \ DOMAIN dt.additionalData : response[k] = Core[k]

\* A response with an ordinary extra and an extra under the key draw.
C13_Witness ==
    /\ MakeDone
    /\ DOMAIN dt.additionalData = {"source", "draw"}
    /\ Len(response["data"]) > 0

(***************************************************************************)
(* The workers of Make: properties                                          *)
(***************************************************************************)
\* C14: whatever the interleaving of the workers, once the barrier is passed
\* every row is what numbering, then the render functions, then the custom
\* columns in registration order, then the row attributes make of it.
C14_AsIfSequential ==
    MakeDone => dataSlice = Decorated(dt, rawData)

(***************************************************************************)
(* The derived queries: properties                                          *)
(***************************************************************************)
\* The count and filtered queries have been derived in this call.
Derived == entry # "" /\ pc \in {"total", "filtered", "fetch", "assemble", "done"}

\* The statement of the base query as buildBaseQuery returned it.
BaseAsBuilt == Stmt(buildBaseQuery(dt, first.heap))

\* C15: deriving and using the count and filtered queries leaves the clauses
\* of the base query as buildBaseQuery made them, and the clauses of the
\* caller's own query object as the caller made them.
C15_DerivationFrame ==
    Derived =>
        /\ sBase.Clauses = BaseAsBuilt.Clauses
        /\ heap[1].Clauses = first.heap[1].Clauses

(***************************************************************************)
(* Clause detection: properties                                             *)
(***************************************************************************)
\* checkComplexQuery has run in this call.
Detected == issued # <<>>

\* The Config the caller declared, and the text of the caller's query.
Declared == first.dt.config

QueryText == MapSeq(SqlText(first.heap[1]), ToUpper)

Found(keyword) == Index(QueryText, keyword) # -1

\* What detection alone finds in the text.
Findings == checkComplexQuery_Authoritative(first.dt, first.heap).config

\* C16: after checkComplexQuery the four fields equal what detection found in
\* the text; a declared flag or list is overwritten also when the keyword is
\* absent.
C16_DetectionAuthoritative ==
    Detected =>
        /\ dt.config.Union = Findings.Union
        /\ dt.config.Distinct = Findings.Distinct
        /\ dt.config.GroupBy = Findings.GroupBy
        /\ dt.config.Having = Findings.Having

\* C16 as the code has it: a keyword found in the text sets its flag or
\* replaces its list; for a keyword that is absent the declared value stays.
C16_DetectionAdditive ==
    Detected =>
        /\ dt.config.Union = (Found(queryUnion) \/ Declared.Union)
        /\ dt.config.Distinct = (Found(queryDistinct) \/ Declared.Distinct)
        /\ dt.config.GroupBy = IF Found(queryGroupBy) THEN Findings.GroupBy
                               ELSE Declared.GroupBy
        /\ dt.config.Having = IF Found(queryHaving) THEN Findings.Having
                              ELSE Declared.Having

\* Detection has run on a query without GROUP BY for a caller who declared
\* GroupBy.
C16_Witness ==
    /\ Detected
    /\ ~Found(queryGroupBy)
    /\ Declared.GroupBy # <<>>

(***************************************************************************)
(* The visibility policy on the response: properties                        *)
(***************************************************************************)
\* C17: no row of the data of a Make response has a key that the visibility
\* policy does not allow (blacklisted with an empty whitelist, or absent from
\* a non-empty whitelist).
C17_HiddenColumnsAbsent ==
    MakeDone =>
        \A i \in 1..Len(response["data"]) :
            \A k \in DOMAIN response["data"][i] : isColumnAllowed(dt, k)

(***************************************************************************)
(* ParseRequest: properties                                                 *)
(***************************************************************************)
\* The texts that are integers, and those that are booleans.
IsInteger(text) == text \in {"0", "1", "10", "99", "-1"}

IsBoolean(text) ==
    text \in {"1", "t", "T", "TRUE", "true", "True", "0", "f", "F", "FALSE", "false", "False"}

\* C18: ParseRequest returns an error and no Request exactly when draw, start
\* or length is missing or no integer, or search[regex] is missing or no
\* boolean; it returns a Request, and no error, otherwise.
C18_ParseErrors ==
    parsed # <<>> =>
        LET bad == \/ ~IsInteger(form.draw)
                   \/ ~IsInteger(form.start)
                   \/ ~IsInteger(form.length)
                   \/ ~IsBoolean(form.searchRegex)
        IN  /\ bad => parsed[1].err # "" /\ parsed[1].req = <<>>
            /\ ~bad => parsed[1].err = "" /\ parsed[1].req # <<>>

(***************************************************************************)
(* The queries of one call: properties                                      *)
(***************************************************************************)
\* The place of a query in processQuery.
Rank(q) ==
    CASE QueryKind(q) = "total" -> 1
      [] QueryKind(q) = "filtered" -> 2
      [] OTHER -> 3

\* C19: within one Make or Raw call the data source sees the total count,
\* then the filtered count, then the fetch, each at most once; the query that
\* failed is the last one it sees, and it sees it once.
C19_QueryOrder ==
    /\ \A i, j \in 1..Len(Seen) : i < j => Rank(Seen[i]) < Rank(Seen[j])
    /\ SourceFailed => QueryKind(Seen[Len(Seen)]) = failAt /\ pc = "failed"
    /\ pc = "failed" => Len(Seen) <= 3

\* A Raw call whose filtered count failed after the total count succeeded.
C19_Witness ==
    /\ entry = "Raw"
    /\ pc = "failed"
    /\ failAt = "filtered"
    /\ Seen = <<"total", "filtered:count">>

(***************************************************************************)
(* Clause detection and the filter hooks: properties                        *)
(***************************************************************************)
\* C20: a GROUP BY that the base query carries once its filter hooks have
\* run is in Config.GroupBy when the count and filtered queries are derived,
\* and the filtered count is then taken over the groups, never by a plain
\* COUNT.
C20_HookClausesDetected ==
    (Derived /\ HasClause(BaseAsBuilt, queryGroupBy)) =>
        /\ Len(dt.config.GroupBy) > 0
        /\ "filtered:count" \notin Range(Seen)

(***************************************************************************)
(* Determinism of the order-by terms                                        *)
(***************************************************************************)
\* The order-by terms of a query.
OrderByOf(query) ==
    IF HasClause(Stmt(query), "ORDER BY") THEN Stmt(query).Clauses["ORDER BY"] ELSE <<>>

\* C21: for the same columns, configuration and request, applyOrder yields
\* the same sequence of order-by terms whatever the order in which the
\* DefaultSort map hands out its entries.
C21_OrderDeterministic ==
    pc = "fetch" =>
        \A n1, n2 \in Orderings(DOMAIN dt.config.DefaultSort) :
            OrderByOf(applyOrder(dt, InHeap(heap, qFiltered), n1).query)
                = OrderByOf(applyOrder(dt, InHeap(heap, qFiltered), n2).query)

(***************************************************************************)
(* The grouping of the filtered query                                       *)
(***************************************************************************)
\* processQuery has built its three queries and run none of them.
QueriesBuilt == pc = "total"

\* A configured field or condition as buildFilteredQuery installs it: without
\* the keyword.
Configured(texts, keyword) == [i \in 1..Len(texts) |-> RemoveAll(texts[i], keyword)]

\* C22: when Config.GroupBy is not empty, the filtered query groups by
\* exactly the fields of Config.GroupBy and carries exactly the conditions of
\* Config.Having, each once; nothing of a GROUP BY or HAVING of the base
\* query is left in it.
C22_FilteredGrouping ==
    (QueriesBuilt /\ Len(dt.config.GroupBy) > 0) =>
        /\ GroupFields(GroupByOf(sFiltered)) = Configured(dt.config.GroupBy, queryGroupBy)
        /\ GroupByOf(sFiltered).Having = Configured(dt.config.Having, queryHaving)

\* A filter hook grouped the base query; the configuration names a field and
\* a condition of its own.
C22_Witness ==
    /\ QueriesBuilt
    /\ \E i \in 1..Len(dt.filters) : dt.filters[i] = "groupByG"
    /\ dt.config.GroupBy = << <<"g">> >>
    /\ dt.config.Having = << <<"total", ">", "1">> >>
    /\ GroupByOf(sFiltered) = [Columns |-> << <<"g">> >>, Having |-> << <<"total", ">", "1">> >>]

AllWorkersDone == \A w \in DOMAIN workers : workers[w] = "done"

\* C24: once the workers are dispatched the barrier is eventually passed,
\* whatever the number of workers and of pool slots, and the response is
\* assembled only when every dispatched worker has finished.
C24_WorkersComplete ==
    /\ (pc = "wait") ~> (pc = "done")
    /\ [](pc = "done" => AllWorkersDone)

\* The barrier passed with four pooled workers, two more, and two slots.
C24_Witness ==
    /\ MakeDone
    /\ semChan = make(2)
    /\ Cardinality({ w \in DOMAIN workers : Pooled(w) }) = 4
    /\ Cardinality(DOMAIN workers) = 6
    /\ AllWorkersDone

(***************************************************************************)
(* The fields checkComplexQuery extracts                                    *)
(***************************************************************************)
\* The text between the GROUP BY keyword and the next HAVING keyword, or the
\* end of the text.
GroupByText ==
    LET from == Index(QueryText, queryGroupBy)
        to == Index(QueryText, queryHaving)
    IN  SubSeq(QueryText, from + 2, IF to # -1 THEN to ELSE Len(QueryText))

\* C25: when the query text contains GROUP BY, checkComplexQuery sets
\* Config.GroupBy to the fields between the keyword and the next HAVING (or
\* the end of the text), split on commas; no element contains the keyword.
C25_GroupByFields ==
    (Detected /\ Found(queryGroupBy)) =>
        /\ dt.config.GroupBy = Split(GroupByText, ",")
        /\ \A i \in 1..Len(dt.config.GroupBy) :
              \A j \in 1..Len(dt.config.GroupBy[i]) : dt.config.GroupBy[i][j] # queryGroupBy

(***************************************************************************)
(* The workers of Make: mutual exclusion                                    *)
(***************************************************************************)
\* The workers inside the section that reads and writes the rows.
InSection == { w \in DOMAIN workers : workers[w] = "body" }

\* C26: at most one worker of Make is inside a section that reads or writes
\* the rows, whatever its kind, and that worker holds the lock.
C26_MutualExclusion ==
    /\ Cardinality(InSection) <= 1
    /\ \A w \in InSection : mu = <<w>>

\* A render worker is in its section while a numbering worker, the
\* custom-column worker and the row-attribute worker wait for the lock.
C26_Witness ==
    /\ pc = "wait"
    /\ \E w \in InSection : w[1] = "render"
    /\ \E w \in DOMAIN workers : w[1] = "number" /\ workers[w] = "lock"
    /\ workers[<<"custom", 0>>] = "lock"
    /\ workers[<<"attributes", 0>>] = "lock"

(***************************************************************************)
(* The visibility policy and the order-by terms                             *)
(***************************************************************************)
\* The registered columns an order-by term can stand for.
TermColumns(term) ==
    { k \in Registered(dt) : term.Name \in {dt.columnsMap[k].Name, dt.columnsMap[k].Data} }

\* C27: every order-by term applyOrder appends stands for a column the
\* visibility policy allows, for the order entries of the request and for the
\* entries of DefaultSort alike (the term of a union shape, union_order,
\* names no column).
C27_OrderTermsAllowed ==
    (Fetched /\ ~dt.config.Union) =>
        \A t \in 1..Len(OrderTerms) :
            \E k \in TermColumns(OrderTerms[t]) : isColumnAllowed(dt, k)

(***************************************************************************)
(* The defined-column list and the column index                             *)
(***************************************************************************)
\* The data keys of the defined-column list.
ListedKeys == { dt.columns[i].Data : i \in 1..Len(dt.columns) }

\* C28: after any sequence of builder calls the defined-column list and the
\* column index hold the same data keys, no key occurs twice in the list,
\* and a key that AddColumn has just added (again) is in the list.
C28_ListAndIndexAgree ==
    /\ ListedKeys = Registered(dt)
    /\ \A i, j \in 1..Len(dt.columns) : dt.columns[i].Data = dt.columns[j].Data => i = j
    /\ LastCall.op = "AddColumn" => LastCall.col.Data \in ListedKeys

(***************************************************************************)
(* What Validate guarantees to query processing                             *)
(***************************************************************************)
\* Validate returned nil in this call of Make.
Validated == entry = "Make" /\ pc \notin {"setup", "failed"}

\* C29: whenever Validate returns no error the data source handle is not nil
\* and has a statement, also with a model bound through Model(...), so that
\* query processing never faults on a missing data source.
C29_ValidatedHasSource ==
    Validated =>
        /\ dt.tx # <<>>
        /\ dt.tx[1].Statement # <<>>

(***************************************************************************)
(* The slices of checkComplexQuery                                          *)
(***************************************************************************)
\* checkComplexQuery is about to run on a handle with a statement.
Checking == pc = "check" /\ dt.tx # <<>> /\ dt.tx[1].Statement # <<>>

\* C30: whatever the number and the order of the keywords GROUP BY and
\* HAVING in the query text, the bounds checkComplexQuery slices the text
\* with satisfy from <= to <= length, and it completes without a fault.
C30_SliceBoundsInOrder ==
    /\ Checking =>
          LET b == groupByClauseBounds(dt, heap)
          IN  b.from # -1 => (b.from <= b.to /\ b.to <= b.len)
    /\ (pc = "panic" /\ issued = <<>>) => (dt.tx = <<>> \/ dt.tx[1].Statement = <<>>)

====
